---- MODULE Spec2Model ----
(***************************************************************************)
(* A model of the multi-agent development platform: the project file       *)
(* tools, the import of projects and the conversation endpoints that drive *)
(* them (src/backend.py), the sandboxed code execution of the developer    *)
(* agent (src/agents/developer.py) and the dispatcher of tasks to the      *)
(* agents (src/main.py, src/agents/*.py).                                  *)
(*                                                                         *)
(* Text is a TLA+ string; Len, \o and SubSeq act on it character by        *)
(* character.  A file holds the characters that are on disk; the platform  *)
(* is a POSIX one (the service runs in a Linux container), so writing text *)
(* stores it as it is and reading it applies Python's universal newlines.  *)
(* The emoji that open the tools' result texts are written (ok) and (x),   *)
(* those of the replies (file), (dir), (chart) and (wrench), the bullet *,  *)
(* and the fence of three backquotes ~~~.  Timestamps are left out of the  *)
(* records that hold one.                                                  *)
(***************************************************************************)
EXTENDS Integers, Sequences, FiniteSets, TLC

VARIABLES
    fs,             \* the filesystem: absolute path (a tuple of names) -> entry
    tool_call,      \* the last File Tool call and what it returned
    ncalls,         \* how many File Tool calls were made
    rt,             \* the round-trip harness: which of its two calls were made
    sandbox_enabled,    \* DeveloperAgent.sandbox_enabled
    docker_client,      \* DeveloperAgent.docker_client: "client" or "None"
    temp_files,         \* how many temporary code files are on disk
    containers,         \* how many containers started by the agent still run
    run_calls,          \* how many times containers.run was called
    exec_result,        \* the last execute_code call and what it returned
    nexec,              \* how many execute_code calls were made
    projects_registry,      \* project id -> project record
    conversations_registry, \* conversation id -> conversation record
    uuid_count,             \* how many identifiers uuid.uuid4() has handed out
    response,               \* the last request to the service and its response
    agent_registry,         \* main.agent_registry: agent name -> agent class
    invocations,            \* how many times an agent's execute_task was called
    handlers                \* the request handlers in flight on the event loop

\* ------------------------------------------------------------------ bounds

\* The longest file content, in characters, that append and prepend build.
MaxLen == 3

\* The number of File Tool calls in one run of the file tool specification.
MaxCalls == 2

\* ------------------------------------------------------------ Python text

\* s in c
Contains(c, s) ==
    \E i \in 0..(Len(c) - Len(s)) : SubSeq(c, i + 1, i + Len(s)) = s

\* The least number of a non-empty set of numbers.
Least(S) == CHOOSE j \in S : \A k \in S : j <= k

\* c.find(s, i - 1) + 1: the first index >= i where s starts in c, 0 if none
Find(c, s, i) ==
    LET First(hits) == IF hits = {} THEN 0 ELSE Least(hits)
    IN First({j \in i..(Len(c) - Len(s) + 1) : SubSeq(c, j, j + Len(s) - 1) = s})

RECURSIVE ReplaceFrom(_, _, _, _)
\* the scan of str.replace from index i on: copy up to the next occurrence,
\* put r, go on behind the occurrence
ReplaceFrom(c, s, r, i) ==
    LET Step(j) == IF j = 0 THEN SubSeq(c, i, Len(c))
                   ELSE SubSeq(c, i, j - 1) \o r \o ReplaceFrom(c, s, r, j + Len(s))
    IN Step(Find(c, s, i))

RECURSIVE Interleave(_, _, _)
\* str.replace with an empty search text: r before every character and at the end
Interleave(c, r, i) ==
    IF i > Len(c) THEN r ELSE r \o SubSeq(c, i, i) \o Interleave(c, r, i + 1)

\* A str.replace that stops after the first occurrence (count=1).
ReplaceFirst(c, s, r) ==
    LET Step(j) == IF j = 0 THEN c
                   ELSE SubSeq(c, 1, j - 1) \o r \o SubSeq(c, j + Len(s), Len(c))
    IN Step(Find(c, s, 1))

\* c.replace(s, r)
PyReplace(c, s, r) ==
    IF s = "" THEN Interleave(c, r, 1) ELSE ReplaceFrom(c, s, r, 1)

RECURSIVE UniversalNewlines(_)
\* what f.read() returns for the characters on disk when the file was opened
\* in text mode with the default newline=None: \r\n and \r become \n
UniversalNewlines(raw) ==
    IF raw = "" THEN ""
    ELSE IF SubSeq(raw, 1, 1) = "\r"
         THEN IF Len(raw) >= 2 /\ SubSeq(raw, 2, 2) = "\n"
              THEN "\n" \o UniversalNewlines(SubSeq(raw, 3, Len(raw)))
              ELSE "\n" \o UniversalNewlines(SubSeq(raw, 2, Len(raw)))
         ELSE SubSeq(raw, 1, 1) \o UniversalNewlines(SubSeq(raw, 2, Len(raw)))

\* '=' * 50
Bar == "=================================================="

\* ------------------------------------------------------------------ paths

RECURSIVE SplitFrom(_, _, _)
\* the parts of p between '/' characters, from index i on; cur is the part
\* read so far
SplitFrom(p, i, cur) ==
    IF i > Len(p) THEN <<cur>>
    ELSE IF SubSeq(p, i, i) = "/" THEN <<cur>> \o SplitFrom(p, i + 1, "")
         ELSE SplitFrom(p, i + 1, cur \o SubSeq(p, i, i))

\* pathlib's parts of a path text: empty parts and '.' are dropped, '..' is kept
Parts(p) ==
    LET raw == SplitFrom(p, 1, "")
    IN SelectSeq(raw, LAMBDA x : x # "" /\ x # ".")

IsAbsolute(p) == Len(p) > 0 /\ SubSeq(p, 1, 1) = "/"

\* The working directory of the service.
Cwd == <<"app">>

\* Path(project_path) / file_path, made absolute against the working
\* directory: an absolute file_path replaces the project path
FullPath(project_path, file_path) ==
    IF IsAbsolute(file_path) THEN Parts(file_path)
    ELSE IF IsAbsolute(project_path) THEN Parts(project_path) \o Parts(file_path)
         ELSE Cwd \o Parts(project_path) \o Parts(file_path)

Parent(path) == IF path = <<>> THEN <<>> ELSE SubSeq(path, 1, Len(path) - 1)

Exists(f, path) == path = <<>> \/ path \in DOMAIN f
IsDir(f, path) == path = <<>> \/ (path \in DOMAIN f /\ f[path].kind = "dir")
IsFile(f, path) == path \in DOMAIN f /\ f[path].kind = "file"
IsLink(f, path) == path \in DOMAIN f /\ f[path].kind = "link"

FileEntry(content) == [kind |-> "file", content |-> content, target |-> <<>>]
DirEntry == [kind |-> "dir", content |-> "", target |-> <<>>]
LinkEntry(target) == [kind |-> "link", content |-> "", target |-> target]

\* f with path bound to entry
Put(f, path, entry) ==
    [q \in DOMAIN f \cup {path} |-> IF q = path THEN entry ELSE f[q]]

RECURSIVE Walk(_, _, _, _)
\* The operating system's resolution of the names segs from the directory cur:
\* '..' goes to the parent of the real directory reached, a symbolic link is
\* followed to its target, a missing or non-directory name that is not the last
\* one is an error.  With make, missing directories are created on the way, the
\* last name included (mkdir with parents and exist_ok).
Walk(f, cur, segs, make) ==
    IF segs = <<>> THEN [err |-> "", real |-> cur, fs |-> f]
    ELSE LET seg == Head(segs)
             rest == Tail(segs)
             next == IF seg = ".." THEN Parent(cur) ELSE Append(cur, seg)
             here == IF IsLink(f, next) THEN f[next].target ELSE next
         IN IF IsDir(f, here) THEN Walk(f, here, rest, make)
            ELSE IF Exists(f, here)
                 THEN IF rest = <<>> /\ ~make
                      THEN [err |-> "", real |-> here, fs |-> f]
                      ELSE [err |-> IF rest = <<>> THEN "EEXIST" ELSE "ENOTDIR",
                            real |-> here, fs |-> f]
                 ELSE IF make THEN Walk(Put(f, here, DirEntry), here, rest, make)
                      ELSE IF rest = <<>>
                           THEN [err |-> "", real |-> here, fs |-> f]
                           ELSE [err |-> "ENOENT", real |-> here, fs |-> f]

\* the real path an absolute path names, for exists(), is_dir() and open()
Resolve(f, path) == Walk(f, <<>>, path, FALSE)

\* full_path.parent.mkdir(parents=True, exist_ok=True)
MkdirParents(f, path) == Walk(f, <<>>, Parent(path), TRUE)

\* ------------------------------------------------------------- file tools

\* The characters on disk at a real path, as text-mode read() returns them.
ReadText(f, real) == UniversalNewlines(f[real].content)

\* A tool call's outcome: the filesystem it leaves and the text it returns.
Outcome(f, result) == [fs |-> f, result |-> result]

\* FileReaderTool.read_file
FileReaderTool_read_file(f, project_path, file_path) ==
    LET Read(r) ==
            IF r.err # "" \/ ~Exists(f, r.real)
            THEN Outcome(f, "File not found: " \o file_path)
            ELSE IF IsDir(f, r.real)
                 THEN Outcome(f, "Path is a directory: " \o file_path)
                 ELSE Outcome(f, "File: " \o file_path \o "\n" \o Bar \o "\n"
                                 \o ReadText(f, r.real) \o "\n" \o Bar)
    IN Read(Resolve(f, FullPath(project_path, file_path)))

\* open(full_path, mode) followed by one write of text: the filesystem after
\* it, or the error open() raises.  Mode 'w' truncates, mode 'a' keeps what is
\* there; both create a missing file and follow a symbolic link.
OpenWrite(f, full, mode, text) ==
    LET Write(r) ==
            IF r.err # "" THEN [err |-> r.err, fs |-> f]
            ELSE IF IsDir(f, r.real) THEN [err |-> "EISDIR", fs |-> f]
            ELSE IF ~Exists(f, Parent(r.real)) THEN [err |-> "ENOENT", fs |-> f]
            ELSE IF mode = "a" /\ IsFile(f, r.real)
                 THEN [err |-> "",
                       fs |-> Put(f, r.real, FileEntry(f[r.real].content \o text))]
                 ELSE [err |-> "", fs |-> Put(f, r.real, FileEntry(text))]
    IN Write(Resolve(f, full))

\* Nothing raises: no exception while a message is processed, none while a
\* file is written.
NoFault == -1

\* open(full_path, mode) followed by one write of text that raises once
\* written characters of it are in the file: nothing of it when the text
\* cannot be encoded, a part of it when the disk fills.  NoFault, or a
\* position past the text, is the write that completes.
OpenWriteUpTo(f, full, mode, text, written) ==
    IF written = NoFault \/ written >= Len(text) THEN OpenWrite(f, full, mode, text)
    ELSE LET Fail(w) == IF w.err # "" THEN w ELSE [err |-> "EIO", fs |-> w.fs]
         IN Fail(OpenWrite(f, full, mode, SubSeq(text, 1, written)))

\* The end of a tool call that wrote: the error text when open() raised, the
\* success text otherwise.
Written(w, error_text, success_text) ==
    IF w.err # "" THEN Outcome(w.fs, error_text \o w.err)
    ELSE Outcome(w.fs, success_text)

\* FileEditorTool.edit_file, its write raising once written characters are in
\* the file
EditFileWriting(f, project_path, file_path, content, operation, written) ==
    LET error_text == "(x) Error editing file " \o file_path \o ": "
        Prepend(g, full, r) ==
            IF r.err = "" /\ Exists(g, r.real) /\ IsDir(g, r.real)
            THEN Outcome(g, error_text \o "EISDIR")
            ELSE Written(OpenWriteUpTo(g, full, "w",
                                   content \o "\n"
                                   \o (IF r.err = "" /\ Exists(g, r.real)
                                       THEN ReadText(g, r.real) ELSE ""), written),
                         error_text, "(ok) Content prepended to " \o file_path)
        Edit(full, mk) ==
            IF mk.err # "" THEN Outcome(mk.fs, error_text \o mk.err)
            ELSE IF operation = "replace"
            THEN Written(OpenWriteUpTo(mk.fs, full, "w", content, written), error_text,
                         "(ok) File " \o file_path \o " has been completely replaced")
            ELSE IF operation = "append"
            THEN Written(OpenWriteUpTo(mk.fs, full, "a", "\n" \o content, written), error_text,
                         "(ok) Content appended to " \o file_path)
            ELSE IF operation = "prepend"
            THEN Prepend(mk.fs, full, Resolve(mk.fs, full))
            ELSE Outcome(mk.fs, "(x) Unknown operation: " \o operation
                                \o ". Use 'replace', 'append', or 'prepend'")
        Start(full) == Edit(full, MkdirParents(f, full))
    IN Start(FullPath(project_path, file_path))

\* FileEditorTool.edit_file
FileEditorTool_edit_file(f, project_path, file_path, content, operation) ==
    EditFileWriting(f, project_path, file_path, content, operation, NoFault)

\* The text search_and_replace writes for the content it read.
NewContent(content, search_text, replace_text) ==
    PyReplace(content, search_text, replace_text)

\* The body of search_and_replace once the path is resolved; replace(c, s, r)
\* is the text written for the content c.
SearchAndReplaceWith(f, full, r, file_path, search_text, replace_text, written) ==
    LET error_text == "(x) Error during search and replace in " \o file_path \o ": "
        Replace(content) ==
            IF ~Contains(content, search_text)
            THEN Outcome(f, "(x) Search text not found in " \o file_path)
            ELSE Written(OpenWriteUpTo(f, full, "w",
                                       NewContent(content, search_text, replace_text),
                                       written),
                         error_text,
                         "(ok) Replaced '" \o search_text \o "' with '"
                         \o replace_text \o "' in " \o file_path)
    IN IF r.err # "" \/ ~Exists(f, r.real)
       THEN Outcome(f, "(x) File not found: " \o file_path)
       ELSE IF IsDir(f, r.real) THEN Outcome(f, error_text \o "EISDIR")
       ELSE Replace(ReadText(f, r.real))

\* search_and_replace that opens the file for appending when it writes
SearchAndReplaceAppends(f, project_path, file_path, search_text, replace_text) ==
    LET Replace(full, r, content) ==
            IF ~Contains(content, search_text)
            THEN Outcome(f, "(x) Search text not found in " \o file_path)
            ELSE Written(OpenWrite(f, full, "a",
                                   PyReplace(content, search_text, replace_text)),
                         "(x) Error during search and replace in " \o file_path \o ": ",
                         "(ok) Replaced '" \o search_text \o "' with '"
                         \o replace_text \o "' in " \o file_path)
        Check(full, r) ==
            IF r.err # "" \/ ~IsFile(f, r.real)
            THEN Outcome(f, "(x) File not found: " \o file_path)
            ELSE Replace(full, r, ReadText(f, r.real))
        Start(full) == Check(full, Resolve(f, full))
    IN Start(FullPath(project_path, file_path))

\* FileEditorTool.search_and_replace, its write raising once written
\* characters are in the file
SearchAndReplaceWriting(f, project_path, file_path, search_text, replace_text, written) ==
    LET Start(full) ==
            SearchAndReplaceWith(f, full, Resolve(f, full), file_path,
                                 search_text, replace_text, written)
    IN Start(FullPath(project_path, file_path))

\* FileEditorTool.search_and_replace
FileEditorTool_search_and_replace(f, project_path, file_path, search_text, replace_text) ==
    SearchAndReplaceWriting(f, project_path, file_path, search_text, replace_text, NoFault)

\* create_file without the exists() test: an existing file is overwritten
CreateFileOverwrites(f, project_path, file_path, content) ==
    LET error_text == "(x) Error creating file " \o file_path \o ": "
        Create(full, mk) ==
            IF mk.err # "" THEN Outcome(mk.fs, error_text \o mk.err)
            ELSE Written(OpenWrite(mk.fs, full, "w", content), error_text,
                         "(ok) Created new file: " \o file_path)
        Start(full) == Create(full, MkdirParents(f, full))
    IN Start(FullPath(project_path, file_path))

\* FileEditorTool.create_file
FileEditorTool_create_file(f, project_path, file_path, content) ==
    LET error_text == "(x) Error creating file " \o file_path \o ": "
        Create(full, mk) ==
            IF mk.err # "" THEN Outcome(mk.fs, error_text \o mk.err)
            ELSE Written(OpenWrite(mk.fs, full, "w", content), error_text,
                         "(ok) Created new file: " \o file_path)
        Check(full, r) ==
            IF r.err = "" /\ Exists(f, r.real)
            THEN Outcome(f, "(x) File already exists: " \o file_path)
            ELSE Create(full, MkdirParents(f, full))
        Start(full) == Check(full, Resolve(f, full))
    IN Start(FullPath(project_path, file_path))

\* ------------------------------------------------------------------ state

vars == <<fs, tool_call, ncalls, rt, sandbox_enabled, docker_client, temp_files,
          containers, run_calls, exec_result, nexec, projects_registry,
          conversations_registry, uuid_count, response, agent_registry,
          invocations, handlers>>

convVars == <<projects_registry, conversations_registry, uuid_count, response>>

\* projects_registry = {} and conversations_registry = {}
EmptyRegistry == [k \in {} |-> k]

NoResponse == [op |-> "", request |-> [none |-> ""], status |-> 0, body |-> [detail |-> ""]]

\* The service before its first request.
NoService ==
    /\ projects_registry = EmptyRegistry
    /\ conversations_registry = EmptyRegistry
    /\ uuid_count = 0
    /\ response = NoResponse

agentVars == <<agent_registry, invocations>>

\* No agent is registered, as before initialize_agents.
NoDispatch ==
    /\ agent_registry = EmptyRegistry
    /\ invocations = 0

\* The number of requests whose handlers are in flight at once.
MaxHandlers == 2

\* A handler: the request it serves, where in its body it is (idle before a
\* request came, start when its coroutine is scheduled, done when it has
\* returned), and the file content it read.
Idle == [op |-> "", request |-> [none |-> ""], pc |-> "idle", content |-> ""]

\* No request is in flight.
NoHandlers == [i \in 1..MaxHandlers |-> Idle]

NoRoundTrip == [step |-> 0, original |-> "", s |-> "", r |-> ""]

NoCall ==
    [op |-> "none", file_path |-> "", content |-> "", operation |-> "",
     search_text |-> "", replace_text |-> "", result |-> ""]

execVars == <<sandbox_enabled, docker_client, temp_files, containers, run_calls,
              exec_result, nexec>>

\* ------------------------------------------------------ code execution

UpperCase == "ABCDEFGHIJKLMNOPQRSTUVWXYZ"
LowerCase == "abcdefghijklmnopqrstuvwxyz"

\* str.lower() of one character
LowerChar(ch) ==
    LET To(i) == IF i = 0 THEN ch ELSE SubSeq(LowerCase, i, i)
    IN To(Find(UpperCase, ch, 1))

RECURSIVE Lower(_)
\* str.lower()
Lower(s) ==
    IF s = "" THEN "" ELSE LowerChar(SubSeq(s, 1, 1)) \o Lower(SubSeq(s, 2, Len(s)))

\* What an execute_code call returns and leaves behind: the result dict (a
\* key it does not hold is ""), the temporary files and running containers it
\* adds, and the containers.run calls it makes.
Execution(status, language, output, error, temps, running, runs) ==
    [status |-> status, language |-> language, output |-> output, error |-> error,
     temps |-> temps, running |-> running, runs |-> runs]

\* What docker_client.containers.run(...) does, as the runtime decides:
\*   exit0       the code ran and ended with exit status 0; the container is removed
\*   nonzero     the code ended with another exit status: ContainerError, after
\*               the container was removed
\*   rejected    the call raises before a container runs (runtime unreachable,
\*               image missing, arguments refused)
\*   timed_out   the 30 seconds pass and the client raises; nothing stops the
\*               container
\*   overran     the 30 seconds pass, the call goes on waiting and the code
\*               ends with exit status 0
RunOutcomes == {"exit0", "nonzero", "rejected", "timed_out", "overran"}

\* The outcomes in which the time budget of the run is exceeded.
BudgetExceeded == {"timed_out", "overran"}

\* the runners with the handler of ContainerError left out: what the code
\* raised is caught by 'except Exception'
RunInContainerOneHandler(client, language, outcome, temps) ==
    IF client = "None"
    THEN Execution("failed", language, "", "AttributeError", temps, 0, 0)
    ELSE IF outcome \in {"exit0", "overran"}
    THEN Execution("success", language, "stdout", "", 0, 0, 1)
    ELSE IF outcome = "nonzero"
    THEN Execution("failed", language, "", "ContainerError", temps, 0, 1)
    ELSE IF outcome = "timed_out"
    THEN Execution("failed", language, "", "ReadTimeout", temps, 1, 1)
    ELSE Execution("failed", language, "", "DockerException", temps, 0, 1)

\* The body of both runners from the containers.run call on; temps is the
\* number of temporary files written before it, which only the success path
\* removes.
RunInContainer(client, language, outcome, temps) ==
    IF client = "None"
    THEN Execution("failed", language, "", "AttributeError", temps, 0, 0)
    ELSE IF outcome \in {"exit0", "overran"}
    THEN Execution("success", language, "stdout", "", 0, 0, 1)
    ELSE IF outcome = "nonzero"
    THEN Execution("error", language, "", "stderr", temps, 0, 1)
    ELSE IF outcome = "timed_out"
    THEN Execution("failed", language, "", "ReadTimeout", temps, 1, 1)
    ELSE Execution("failed", language, "", "DockerException", temps, 0, 1)

\* DeveloperAgent._execute_python_code
DeveloperAgent_execute_python_code(client, code, outcome) ==
    RunInContainer(client, "python", outcome, 1)

\* DeveloperAgent._execute_javascript_code
DeveloperAgent_execute_javascript_code(client, code, outcome) ==
    RunInContainer(client, "javascript", outcome, 0)

\* execute_code without the test of the sandbox flag
ExecuteCodeUnguarded(enabled, client, code, language, outcome) ==
    IF Lower(language) = "python"
    THEN DeveloperAgent_execute_python_code(client, code, outcome)
    ELSE IF Lower(language) \in {"javascript", "js"}
    THEN DeveloperAgent_execute_javascript_code(client, code, outcome)
    ELSE Execution("unsupported", "", "", "Language " \o language \o " not supported",
                   0, 0, 0)

\* execute_code that hands every language but python to the javascript runner
ExecuteCodeAnyLanguage(enabled, client, code, language, outcome) ==
    IF ~enabled
    THEN Execution("disabled", "", "", "Code execution sandbox is disabled", 0, 0, 0)
    ELSE IF Lower(language) = "python"
    THEN DeveloperAgent_execute_python_code(client, code, outcome)
    ELSE DeveloperAgent_execute_javascript_code(client, code, outcome)

\* DeveloperAgent.execute_code
DeveloperAgent_execute_code(enabled, client, code, language, outcome) ==
    IF ~enabled
    THEN Execution("disabled", "", "", "Code execution sandbox is disabled", 0, 0, 0)
    ELSE IF Lower(language) = "python"
    THEN DeveloperAgent_execute_python_code(client, code, outcome)
    ELSE IF Lower(language) \in {"javascript", "js"}
    THEN DeveloperAgent_execute_javascript_code(client, code, outcome)
    ELSE Execution("unsupported", "", "", "Language " \o language \o " not supported",
                   0, 0, 0)

\* The values of the SANDBOX_ENABLED environment variable; unset reads as "true".
EnvValues == {"true", "True", "false", "0"}

\* __init__ that keeps the flag of the environment when docker.from_env()
\* raises
DeveloperAgentInitKeepsFlag(env_value, docker_available) ==
    /\ sandbox_enabled = (Lower(env_value) = "true")
    /\ docker_client = IF Lower(env_value) = "true" /\ docker_available
                       THEN "client" ELSE "None"

\* DeveloperAgent.__init__: the flag from the environment, and the docker
\* client when the flag is on and docker.from_env() does not raise
DeveloperAgent_init(env_value, docker_available) ==
    /\ sandbox_enabled = (Lower(env_value) = "true" /\ docker_available)
    /\ docker_client = IF Lower(env_value) = "true" /\ docker_available
                       THEN "client" ELSE "None"

\* The code texts of the calls: a print, a text that is no Python, an
\* exception, a loop that does not end, a sleep of a minute.
Codes == {"print(1)", "def (", "raise ValueError()", "while True: pass",
          "import time; time.sleep(60)"}

\* What a run of the code can come to: any run can be rejected; the loop never
\* ends by itself, the sleep ends after the budget has passed.
OutcomesOf(code) ==
    IF code = "print(1)" THEN {"exit0", "rejected"}
    ELSE IF code = "while True: pass" THEN {"timed_out", "rejected"}
    ELSE IF code = "import time; time.sleep(60)" THEN {"timed_out", "overran", "rejected"}
    ELSE {"nonzero", "rejected"}

\* The language arguments of the calls.
Languages == {"python", "Python", "javascript", "js", "ruby"}

\* The number of execute_code calls in one run.
MaxExec == 2

NoExecution ==
    [code |-> "", language |-> "", outcome |-> "", status |-> "none",
     output |-> "", error |-> "", result_language |-> ""]

\* No developer agent takes part.
NoAgent ==
    /\ sandbox_enabled = FALSE
    /\ docker_client = "None"
    /\ temp_files = 0
    /\ containers = 0
    /\ run_calls = 0
    /\ exec_result = NoExecution
    /\ nexec = 0

ExecuteCode ==
    \E code \in Codes, language \in Languages :
      \E outcome \in OutcomesOf(code) :
        \E x \in {DeveloperAgent_execute_code(sandbox_enabled, docker_client,
                                              code, language, outcome)} :
            /\ nexec < MaxExec
            /\ nexec' = nexec + 1
            /\ temp_files' = temp_files + x.temps
            /\ containers' = containers + x.running
            /\ run_calls' = run_calls + x.runs
            /\ exec_result' = [code |-> code, language |-> language,
                               outcome |-> IF x.runs > 0 THEN outcome ELSE "",
                               status |-> x.status, output |-> x.output,
                               error |-> x.error, result_language |-> x.language]
            /\ UNCHANGED <<sandbox_enabled, docker_client, fs, tool_call, ncalls, rt, convVars, agentVars, handlers>>

ExecInit ==
    /\ fs = <<>>
    /\ tool_call = NoCall
    /\ NoDispatch
    /\ handlers = NoHandlers
    /\ ncalls = 0
    /\ rt = NoRoundTrip
    /\ \E env_value \in EnvValues, docker_available \in BOOLEAN :
           DeveloperAgent_init(env_value, docker_available)
    /\ temp_files = 0
    /\ containers = 0
    /\ run_calls = 0
    /\ exec_result = NoExecution
    /\ nexec = 0
    /\ NoService

ExecNext == ExecuteCode

\* A developer agent after its construction, and its execute_code calls.
ExecSpec == ExecInit /\ [][ExecNext]_vars

\* A developer agent constructed with SANDBOX_ENABLED on, with and without a
\* container runtime that docker.from_env() reaches.
SandboxInit ==
    /\ fs = <<>>
    /\ tool_call = NoCall
    /\ NoDispatch
    /\ handlers = NoHandlers
    /\ ncalls = 0
    /\ rt = NoRoundTrip
    /\ \E env_value \in {"true", "True"}, docker_available \in BOOLEAN :
           DeveloperAgent_init(env_value, docker_available)
    /\ temp_files = 0
    /\ containers = 0
    /\ run_calls = 0
    /\ exec_result = NoExecution
    /\ nexec = 0
    /\ NoService

\* The execute_code calls of an agent whose environment asks for the sandbox.
SandboxSpec == SandboxInit /\ [][ExecNext]_vars

\* --------------------------------------------------- reading a message

\* The characters the regular expression \s matches.
Whitespace == {" ", "\t", "\n", "\r"}

Quotes == {"\"", "'"}

\* the character of text at index i, "" beyond its end
CharAt(text, i) == IF i >= 1 /\ i <= Len(text) THEN SubSeq(text, i, i) ELSE ""

\* text[i - 1 : j] of Python: the characters i..j of text that exist
Slice(text, i, j) ==
    IF i > Len(text) \/ j < i THEN ""
    ELSE SubSeq(text, i, IF j > Len(text) THEN Len(text) ELSE j)

\* the first index >= i of text that holds no whitespace, Len(text) + 1 if none
NextNonSpace(text, i) ==
    Least({j \in i..(Len(text) + 1) : CharAt(text, j) \notin Whitespace})

\* the first index >= i of text that holds whitespace, Len(text) + 1 if none
NextSpace(text, i) ==
    Least({j \in i..(Len(text) + 1) : j = Len(text) + 1 \/ CharAt(text, j) \in Whitespace})

RECURSIVE TagsFrom(_, _)
\* re.findall(r'@([^\s]+)', text) from index i on: after each '@' that a
\* non-whitespace character follows, the characters up to the next whitespace
TagsFrom(text, i) ==
    LET Tag(at) ==
            IF at = 0 THEN <<>>
            ELSE IF NextSpace(text, at + 1) = at + 1 THEN TagsFrom(text, at + 1)
            ELSE <<SubSeq(text, at + 1, NextSpace(text, at + 1) - 1)>>
                 \o TagsFrom(text, NextSpace(text, at + 1))
    IN Tag(Find(text, "@", i))

\* file_tags = re.findall(r'@([^\s]+)', message.message)
FileTags(message) == TagsFrom(message, 1)

\* The characters the regular expression \w matches.
WordChars == UpperCase \o LowerCase \o "0123456789_"

\* a keyword test that takes a keyword only as a word of its own, with no
\* letter, digit or underscore next to it
AnyKeywordWholeWord(message, keywords) ==
    LET Apart(ch) == ch = "" \/ ~Contains(WordChars, ch)
        In(lower) ==
            \E keyword \in keywords :
               \E j \in 1..Len(lower) :
                  /\ Slice(lower, j, j + Len(keyword) - 1) = keyword
                  /\ Apart(CharAt(lower, j - 1))
                  /\ Apart(CharAt(lower, j + Len(keyword)))
    IN In(Lower(message))

\* any(keyword in message.message.lower() for keyword in keywords)
AnyKeyword(message, keywords) ==
    LET In(lower) == \E keyword \in keywords : Contains(lower, keyword)
    IN In(Lower(message))

EditKeywords == {"edit", "modify", "change", "update", "fix"}
ViewKeywords == {"show", "read", "display", "view"}
AnalyzeKeywords == {"analyze", "examine", "review", "check"}

\* (.+?)["\'] from index g on: the lengths n >= 1 of a group of characters
\* other than line breaks that a quote follows
GroupLengths(text, g) ==
    {n \in 1..(Len(text) - g) :
        /\ \A k \in g..(g + n - 1) : CharAt(text, k) # "\n"
        /\ CharAt(text, g + n) \in Quotes}

\* \s+with\s+["\'](.+?)["\'] from index k on: the index where the second
\* group starts, 0 if the text does not match there
SecondGroupStart(text, k) ==
    LET AfterWith(w, q) ==
            IF /\ w > k
               /\ Lower(Slice(text, w, w + 3)) = "with"
               /\ q > w + 4
               /\ CharAt(text, q) \in Quotes
               /\ GroupLengths(text, q + 1) # {}
            THEN q + 1 ELSE 0
        With(w) == AfterWith(w, NextNonSpace(text, w + 4))
    IN With(NextNonSpace(text, k))

\* replace\s+["\'] at index i: the index where the first group starts, 0 if
\* the text does not match there
FirstGroupStart(text, i) ==
    LET Quote(q) ==
            IF /\ Lower(Slice(text, i, i + 6)) = "replace"
               /\ q > i + 7
               /\ CharAt(text, q) \in Quotes
            THEN q + 1 ELSE 0
    IN Quote(NextNonSpace(text, i + 7))

\* the lengths of a first group at index g after which the rest of the
\* pattern matches
FirstGroupLengths(text, g) ==
    {n \in GroupLengths(text, g) : SecondGroupStart(text, g + n + 1) # 0}

\* re.search(r'replace\s+["\'](.+?)["\']\s+with\s+["\'](.+?)["\']',
\*           message.message, re.IGNORECASE):
\* the leftmost match, each group as short as a match allows
ReplaceMatch(text) ==
    LET NoMatch == [found |-> FALSE, search_text |-> "", replace_text |-> ""]
        Second(g1, n1, g2) ==
            [found |-> TRUE, search_text |-> SubSeq(text, g1, g1 + n1 - 1),
             replace_text |-> SubSeq(text, g2, g2 + Least(GroupLengths(text, g2)) - 1)]
        First(g1, n1) == Second(g1, n1, SecondGroupStart(text, g1 + n1 + 1))
        At(g1) == First(g1, Least(FirstGroupLengths(text, g1)))
        Leftmost(starts) ==
            IF starts = {} THEN NoMatch ELSE At(FirstGroupStart(text, Least(starts)))
    IN Leftmost({i \in 1..Len(text) :
                    /\ FirstGroupStart(text, i) # 0
                    /\ FirstGroupLengths(text, FirstGroupStart(text, i)) # {}})

\* ------------------------------------------------------ listing a project

\* The printable characters in code point order (a string cannot hold the
\* backquote).
Ascii ==
    " !\"#$%&'()*+,-./0123456789:;<=>?@ABCDEFGHIJKLMNOPQRSTUVWXYZ[\\]^_abcdefghijklmnopqrstuvwxyz{|}~"

\* ord(ch), up to an order-preserving renumbering
Ord(ch) == Find(Ascii, ch, 1)

RECURSIVE Before(_, _)
\* a < b for two texts
Before(a, b) ==
    IF b = "" THEN FALSE
    ELSE IF a = "" THEN TRUE
    ELSE IF Ord(CharAt(a, 1)) # Ord(CharAt(b, 1))
         THEN Ord(CharAt(a, 1)) < Ord(CharAt(b, 1))
         ELSE Before(Slice(a, 2, Len(a)), Slice(b, 2, Len(b)))

RECURSIVE Sorted(_)
\* sorted(names)
Sorted(names) ==
    IF names = {} THEN <<>>
    ELSE LET First(x) == <<x>> \o Sorted(names \ {x})
         IN First(CHOOSE x \in names : \A y \in names \ {x} : Before(x, y))

RECURSIVE JoinLines(_)
\* "\n".join(lines)
JoinLines(lines) ==
    IF lines = <<>> THEN ""
    ELSE IF Len(lines) = 1 THEN Head(lines)
    ELSE Head(lines) \o "\n" \o JoinLines(Tail(lines))

\* text.startswith(prefix) and text.endswith(suffix)
PyStartsWith(text, prefix) == Slice(text, 1, Len(prefix)) = prefix
PyEndsWith(text, suffix) ==
    Len(suffix) <= Len(text) /\ Slice(text, Len(text) - Len(suffix) + 1, Len(text)) = suffix

\* the names in the directory at the real path dir
Names(f, dir) ==
    {q[Len(q)] : q \in {q \in DOMAIN f : Len(q) = Len(dir) + 1 /\ Parent(q) = dir}}

RECURSIVE ListedItems(_, _, _)
\* The loop of list_files over the sorted names: the lines it collects, or the
\* error stat() raises on a name that links to nothing.
ListedItems(f, dir, names) ==
    IF names = <<>> THEN [err |-> "", lines |-> <<>>]
    ELSE LET name == Head(names)
             Rest(line, more) ==
                 IF more.err # "" THEN more
                 ELSE [err |-> "", lines |-> line \o more.lines]
             Item(r) ==
                 IF PyStartsWith(name, ".") THEN ListedItems(f, dir, Tail(names))
                 ELSE IF r.err = "" /\ IsDir(f, r.real)
                 THEN Rest(<<"(dir) " \o name \o "/">>, ListedItems(f, dir, Tail(names)))
                 ELSE IF r.err # "" \/ ~Exists(f, r.real)
                 THEN [err |-> "ENOENT", lines |-> <<>>]
                 ELSE Rest(<<"(file) " \o name \o " ("
                             \o ToString(Len(f[r.real].content)) \o " bytes)">>,
                           ListedItems(f, dir, Tail(names)))
         IN Item(Resolve(f, Append(dir, name)))

\* FileReaderTool.list_files
FileReaderTool_list_files(f, project_path, directory) ==
    LET error_text == "Error listing directory " \o directory \o ": "
        Listed(items) ==
            IF items.err # "" THEN Outcome(f, error_text \o items.err)
            ELSE Outcome(f, "Directory: " \o (IF directory = "" THEN "." ELSE directory)
                            \o "\n" \o JoinLines(items.lines))
        List(r) ==
            IF r.err # "" \/ ~Exists(f, r.real)
            THEN Outcome(f, "Directory not found: " \o directory)
            ELSE IF ~IsDir(f, r.real) THEN Outcome(f, error_text \o "ENOTDIR")
            ELSE Listed(ListedItems(f, r.real, Sorted(Names(f, r.real))))
    IN List(Resolve(f, FullPath(project_path, directory)))

\* ------------------------------------------------------------ projects

\* str(uuid.uuid4()): the n-th identifier handed out, unlike every other
Uuid(n) == "u" \o ToString(n)

\* path.is_relative_to(other), for two resolved paths
IsRelativeTo(path, other) ==
    Len(other) <= Len(path) /\ SubSeq(path, 1, Len(other)) = other

\* the absolute path of a path text
Absolute(p) == IF IsAbsolute(p) THEN Parts(p) ELSE Cwd \o Parts(p)

\* path.mkdir(exist_ok=True)
Mkdir(f, path) ==
    LET Make(r) ==
            IF r.err # "" THEN [err |-> r.err, fs |-> f]
            ELSE IF IsDir(f, r.real) THEN [err |-> "", fs |-> f]
            ELSE IF Exists(f, r.real) THEN [err |-> "EEXIST", fs |-> f]
            ELSE IF ~IsDir(f, Parent(r.real)) THEN [err |-> "ENOENT", fs |-> f]
            ELSE [err |-> "", fs |-> Put(f, r.real, DirEntry)]
    IN Make(Resolve(f, path))

\* shutil.rmtree(path): the directory and all that is under it are gone
Rmtree(f, path) == [q \in {q \in DOMAIN f : ~IsRelativeTo(q, path)} |-> f[q]]

\* shutil.ignore_patterns('.*', '__pycache__')
Ignored(name) == PyStartsWith(name, ".") \/ name = "__pycache__"

\* How many directories deep a copy goes before Python gives up with
\* RecursionError.
RecursionLimit == 4

RECURSIVE CopyDir(_, _, _, _)
RECURSIVE CopyEntries(_, _, _, _, _)
\* The loop of copytree over the names listed in src, by now in f: a name
\* that is, or links to, a directory is copied by copytree in turn, any other
\* with its content, a link to nothing is an error that is kept for the end;
\* RecursionError ends the copy where it is.
CopyEntries(f, src, dst, names, depth) ==
    IF names = <<>> THEN [err |-> "", fs |-> f]
    ELSE LET to == Append(dst, Head(names))
             More(one) ==
                 IF one.err = "RecursionError" THEN one
                 ELSE LET Keep(rest) ==
                              IF rest.err = "RecursionError" \/ one.err = "" THEN rest
                              ELSE [rest EXCEPT !.err = one.err]
                      IN Keep(CopyEntries(one.fs, src, dst, Tail(names), depth))
             Entry(r) ==
                 IF r.err # "" \/ ~Exists(f, r.real) THEN [err |-> "ENOENT", fs |-> f]
                 ELSE IF IsDir(f, r.real) THEN CopyDir(f, r.real, to, depth + 1)
                 ELSE IF Exists(f, to) /\ ~IsFile(f, to) THEN [err |-> "EISDIR", fs |-> f]
                 ELSE [err |-> "", fs |-> Put(f, to, FileEntry(f[r.real].content))]
         IN More(Entry(Resolve(f, Append(src, Head(names)))))

\* copytree for one directory: the names are listed, the ignored ones left
\* out, dst is made, which must not exist, and the names are copied
CopyDir(f, src, dst, depth) ==
    IF depth > RecursionLimit THEN [err |-> "RecursionError", fs |-> f]
    ELSE IF Exists(f, dst) THEN [err |-> "EEXIST", fs |-> f]
    ELSE CopyEntries(Put(f, dst, DirEntry), src, dst,
                     Sorted({name \in Names(f, src) : ~Ignored(name)}), depth)

\* shutil.copytree(source, dest, ignore=...), symlinks=False: what a link
\* names is copied in its place, a linked directory with all that is under it
CopyTree(f, source, dest) ==
    IF ~IsDir(f, source) THEN [err |-> "ENOTDIR", fs |-> f]
    ELSE CopyDir(f, source, dest, 1)

\* shutil.rmtree(project_dir) when project_dir.exists(): rmtree refuses a
\* symbolic link, and a file is no directory
RmtreeIfExists(f, path) ==
    LET Remove(r) ==
            IF r.err # "" \/ ~Exists(f, r.real) THEN [err |-> "", fs |-> f]
            ELSE IF IsLink(f, path) THEN [err |-> "OSError", fs |-> f]
            ELSE IF ~IsDir(f, path) THEN [err |-> "ENOTDIR", fs |-> f]
            ELSE [err |-> "", fs |-> Rmtree(f, path)]
    IN Remove(Resolve(f, path))

\* create_project_directory: the filesystem it leaves and the path text it
\* returns, or the error it raises.  now is the text of datetime.now().
create_project_directory(f, project_id, project_name, local_path, now) ==
    LET project_dir == Cwd \o <<"projects", project_id>>
        Done(w) == [err |-> w.err, fs |-> w.fs, path |-> "projects/" \o project_id]
        Link(rm, source_path) ==
            IF rm.err # "" THEN Done(rm)
            ELSE Done([err |-> "", fs |-> Put(rm.fs, project_dir, LinkEntry(source_path))])
        Copy(rm, source_path) ==
            IF rm.err # "" THEN Done(rm)
            ELSE Done(CopyTree(rm.fs, source_path, project_dir))
        Import(g, source_path, dest_path) ==
            IF IsRelativeTo(dest_path, source_path)
            THEN Link(RmtreeIfExists(g, project_dir), source_path)
            ELSE Copy(RmtreeIfExists(g, project_dir), source_path)
        Readme(mk) ==
            IF mk.err # "" THEN Done(mk)
            ELSE Done(OpenWrite(mk.fs, Append(project_dir, "README.md"), "w",
                                "# " \o project_name \o "\n\nProject created at " \o now))
        Branch(g, source) ==
            IF local_path # "" /\ source.err = "" /\ Exists(g, source.real)
            THEN Import(g, source.real, Resolve(g, project_dir).real)
            ELSE Readme(Mkdir(g, project_dir))
        Start(mk) ==
            IF mk.err # "" THEN Done(mk)
            ELSE Branch(mk.fs, Resolve(mk.fs, Absolute(local_path)))
    IN Start(Mkdir(f, Cwd \o <<"projects">>))

\* What a request handler leaves: the two registries, the filesystem, the
\* identifiers handed out, and the response.
Handled(projects, conversations, f, n, status, body) ==
    [projects |-> projects, conversations |-> conversations, fs |-> f,
     uuid_count |-> n, status |-> status, body |-> body]

\* the dict d with key bound to value
SetItem(d, key, value) ==
    [k \in DOMAIN d \cup {key} |-> IF k = key THEN value ELSE d[k]]

\* POST /projects
create_project(projects, conversations, f, n, name, description, local_path, now) ==
    LET project_id == Uuid(n + 1)
        Store(d) ==
            IF d.err # ""
            THEN Handled(projects, conversations, d.fs, n + 1, 500, [detail |-> d.err])
            ELSE Handled(SetItem(projects, project_id,
                                 [id |-> project_id, name |-> name,
                                  description |-> description, path |-> d.path,
                                  local_path |-> local_path]),
                         conversations, d.fs, n + 1, 200,
                         [project_id |-> project_id,
                          message |-> "Project '" \o name \o "' created successfully",
                          path |-> d.path])
    IN Store(create_project_directory(f, project_id, name, local_path, now))

\* -------------------------------------------------------- conversations

RECURSIVE CountFrom(_, _, _)
\* text.count(sub) from index i on, for a non-empty sub
CountFrom(text, sub, i) ==
    LET At(j) == IF j = 0 THEN 0 ELSE 1 + CountFrom(text, sub, j + Len(sub))
    IN At(Find(text, sub, i))

RECURSIVE WordEnd(_, _)
\* the index after the run of \w characters that starts at index i
WordEnd(text, i) ==
    IF CharAt(text, i) # "" /\ Contains(WordChars, CharAt(text, i))
    THEN WordEnd(text, i + 1) ELSE i

RECURSIVE FindallFrom(_, _, _)
\* len(re.findall(keyword + r'\w+', text)) from index i on
FindallFrom(text, keyword, i) ==
    LET At(j) ==
            IF j = 0 THEN 0
            ELSE IF WordEnd(text, j + Len(keyword)) > j + Len(keyword)
                 THEN 1 + FindallFrom(text, keyword, WordEnd(text, j + Len(keyword)))
                 ELSE FindallFrom(text, keyword, j + 1)
    IN At(Find(text, keyword, i))

RECURSIVE Previews(_, _, _)
\* the loop over file_tags of the edit and view branches
Previews(f, project_path, file_tags) ==
    IF file_tags = <<>> THEN ""
    ELSE "(file) **" \o Head(file_tags) \o "**:\n~~~\n"
         \o FileReaderTool_read_file(f, project_path, Head(file_tags)).result
         \o "\n~~~\n\n" \o Previews(f, project_path, Tail(file_tags))

\* the analysis of one tagged file, from what read_file returned for it
Analysis(file_tag, file_content) ==
    "(file) **" \o file_tag \o "**:\n"
    \o "* Lines: " \o ToString(CountFrom(file_content, "\n", 1)) \o "\n"
    \o "* Size: " \o ToString(Len(file_content)) \o " characters\n"
    \o (IF PyEndsWith(file_tag, ".py")
        THEN "* Type: Python file\n"
             \o (IF Contains(file_content, "def ")
                 THEN "* Functions: " \o ToString(FindallFrom(file_content, "def ", 1)) \o "\n"
                 ELSE "")
             \o (IF Contains(file_content, "class ")
                 THEN "* Classes: " \o ToString(FindallFrom(file_content, "class ", 1)) \o "\n"
                 ELSE "")
        ELSE IF PyEndsWith(file_tag, ".js")
        THEN "* Type: JavaScript file\n"
             \o (IF Contains(file_content, "function ")
                 THEN "* Functions: "
                      \o ToString(FindallFrom(file_content, "function ", 1)) \o "\n"
                 ELSE "")
        ELSE "")
    \o "\n"

RECURSIVE Analyses(_, _, _)
\* the loop over file_tags of the analysis branch
Analyses(f, project_path, file_tags) ==
    IF file_tags = <<>> THEN ""
    ELSE Analysis(Head(file_tags),
                  FileReaderTool_read_file(f, project_path, Head(file_tags)).result)
         \o Analyses(f, project_path, Tail(file_tags))

RECURSIVE EditResultsStopsOnFailure(_, _, _, _, _, _)
\* the loop of the replace branch, left at the first file that fails
EditResultsStopsOnFailure(f, project_path, file_tags, search_text, replace_text, calls) ==
    IF calls = 0 THEN [fs |-> f, text |-> "", raised |-> TRUE]
    ELSE IF file_tags = <<>> THEN [fs |-> f, text |-> "", raised |-> FALSE]
    ELSE LET Rest(o, more) ==
                 [more EXCEPT !.text = "(file) " \o Head(file_tags) \o ": "
                                       \o o.result \o "\n" \o more.text]
             Next(o) ==
                 Rest(o, IF PyStartsWith(o.result, "(x)")
                         THEN [fs |-> o.fs, text |-> "", raised |-> FALSE]
                         ELSE EditResultsStopsOnFailure(
                                  o.fs, project_path, Tail(file_tags), search_text,
                                  replace_text, IF calls > 0 THEN calls - 1 ELSE calls))
         IN Next(FileEditorTool_search_and_replace(f, project_path, Head(file_tags),
                                                   search_text, replace_text))

RECURSIVE EditResults(_, _, _, _, _, _)
\* The loop over file_tags of the replace branch: the filesystem it leaves and
\* the lines it adds.  With calls >= 0 an exception is raised once that many
\* files were handled.
EditResults(f, project_path, file_tags, search_text, replace_text, calls) ==
    IF calls = 0 THEN [fs |-> f, text |-> "", raised |-> TRUE]
    ELSE IF file_tags = <<>> THEN [fs |-> f, text |-> "", raised |-> FALSE]
    ELSE LET Rest(o, more) ==
                 [more EXCEPT !.text = "(file) " \o Head(file_tags) \o ": "
                                       \o o.result \o "\n" \o more.text]
             Next(o) ==
                 Rest(o, EditResults(o.fs, project_path, Tail(file_tags), search_text,
                                     replace_text, IF calls > 0 THEN calls - 1 ELSE calls))
         IN Next(FileEditorTool_search_and_replace(f, project_path, Head(file_tags),
                                                   search_text, replace_text))

RECURSIVE TaggedFiles(_)
\* the loop over file_tags of the default response
TaggedFiles(file_tags) ==
    IF file_tags = <<>> THEN ""
    ELSE "* @" \o Head(file_tags) \o "\n" \o TaggedFiles(Tail(file_tags))

FallbackResponse ==
    "I'm ready to help with your project. Tag files with @ and tell me what you'd like to do!"

\* the branches of send_message, the replace branch tried before the others
IntentReplaceFirst(message) ==
    IF Contains(Lower(message), "replace") /\ FileTags(message) # <<>> THEN "replace"
    ELSE IF AnyKeyword(message, EditKeywords) THEN "edit"
    ELSE IF AnyKeyword(message, ViewKeywords) THEN "view"
    ELSE IF AnyKeyword(message, AnalyzeKeywords) THEN "analyze"
    ELSE "default"

\* the branches of send_message, the analysis branch tried before the view
\* branch
IntentAnalyzeBeforeView(message) ==
    IF AnyKeyword(message, EditKeywords) THEN "edit"
    ELSE IF AnyKeyword(message, AnalyzeKeywords) THEN "analyze"
    ELSE IF AnyKeyword(message, ViewKeywords) THEN "view"
    ELSE IF Contains(Lower(message), "replace") /\ FileTags(message) # <<>> THEN "replace"
    ELSE "default"

\* The branch of send_message a message takes.
Intent(message) ==
    IF AnyKeyword(message, EditKeywords) THEN "edit"
    ELSE IF AnyKeyword(message, ViewKeywords) THEN "view"
    ELSE IF AnyKeyword(message, AnalyzeKeywords) THEN "analyze"
    ELSE IF Contains(Lower(message), "replace") /\ FileTags(message) # <<>> THEN "replace"
    ELSE "default"

\* What send_message reads off a message: its tags, its branch and its
\* replace directive.
Reading(message) ==
    [file_tags |-> FileTags(message), intent |-> Intent(message),
     replace_match |-> ReplaceMatch(message)]

\* The messages sent to the service.
Messages ==
    {"hello", "edit @app.py", "show files", "analyze @app.py",
     "replace \"foo\" with \"bar\" in @app.py @lib.py", "replace foo in @app.py"}

\* The messages of the turns that edit: replace directives over two files in
\* either order and over one file twice, and messages with an edit keyword,
\* with and without a file and with a replace directive.
TurnMessages ==
    {"replace \"foo\" with \"bar\" in @app.py @lib.py",
     "replace \"foo\" with \"bar\" in @lib.py @app.py",
     "replace \"foo\" with \"bar\" in @app.py @app.py",
     "edit @app.py to rename foo to bar",
     "edit: replace \"foo\" with \"bar\" in @app.py",
     "please fix it"}

\* The messages of the turns that tell the branches apart: keywords of two
\* families in one message, a keyword before a replace directive, a keyword
\* inside a tag or inside the quoted text of a directive, directives that
\* parse and that do not, the word replace without a tag, and analyses of a
\* file that is there and of one that is not.
IntentMessages ==
    {"edit or show @app.py",
     "show and analyze @app.py",
     "edit: replace \"foo\" with \"bar\" in @app.py",
     "review: replace \"foo\" with \"bar\" in @app.py",
     "examine: replace \"foo\" with \"bar\" in @app.py",
     "replace \"foo\" with \"bar\" in @app.py",
     "replace \"foo\" with \"update_user\" in @app.py",
     "replace \"foo\" with \"bar\" in @fixtures.py @app.py",
     "replace foo in @app.py",
     "replace \"foo\" by \"bar\" in @app.py",
     "replace it",
     "analyze @app.py",
     "analyze @gone.py",
     "hello"}

\* Reading, tabulated for the messages sent.
Readings == [message \in Messages \cup TurnMessages \cup IntentMessages |-> Reading(message)]

ReadingOf(message) ==
    IF message \in DOMAIN Readings THEN Readings[message] ELSE Reading(message)

\* the replace branch of send_message with a directive that is dropped when
\* it does not parse: no reply text, so that the default reply is given
ReplaceBranchSilent(f, project_path, file_tags, replace_match, fault) ==
    LET Edited(e) ==
            [fs |-> e.fs, raised |-> e.raised,
             ai_response |-> "(wrench) **File Edit Results**:\n\n" \o e.text,
             file_tags |-> file_tags]
    IN IF replace_match.found
       THEN Edited(EditResults(f, project_path, file_tags, replace_match.search_text,
                               replace_match.replace_text, fault))
       ELSE [fs |-> f, raised |-> FALSE, ai_response |-> "", file_tags |-> file_tags]

\* The replace branch of send_message: the files edited and their outcomes
\* when the directive parsed, the format to use when it did not.
ReplaceBranch(f, project_path, file_tags, replace_match, fault) ==
    LET Edited(e) ==
            [fs |-> e.fs, raised |-> e.raised,
             ai_response |-> "(wrench) **File Edit Results**:\n\n" \o e.text,
             file_tags |-> file_tags]
    IN IF replace_match.found
       THEN Edited(EditResults(f, project_path, file_tags, replace_match.search_text,
                               replace_match.replace_text, fault))
       ELSE [fs |-> f, raised |-> FALSE,
             ai_response |-> "To replace text, use the format: 'Replace \"old text\" with \"new text\" in @filename.py'",
             file_tags |-> file_tags]

\* The try block of send_message up to the reply text: the filesystem it
\* leaves, the reply, the tags, and whether an exception was raised.  With
\* fault >= 0 an exception is raised in the block, after that many files were
\* edited or when the reply text is ready, whichever is first.
MessageProcessing(f, project_path, message, fault) ==
    LET Processed(g, raised, ai_response, file_tags) ==
            [fs |-> g, raised |-> raised, ai_response |-> ai_response,
             file_tags |-> file_tags]
        Branch(file_tags, intent, replace_match) ==
            IF intent = "edit"
            THEN Processed(f, FALSE,
                    IF file_tags # <<>>
                    THEN "I can help you edit files! Here's what I found:\n\n"
                         \o Previews(f, project_path, file_tags)
                         \o "To edit a file, you can:\n"
                         \o "* Ask me to modify specific parts\n"
                         \o "* Request search and replace operations\n"
                         \o "* Tell me what changes you want to make\n\n"
                         \o "Example: 'Replace the function name in @app.py from old_name to new_name'"
                    ELSE "I can help you edit files! Please tag a file with @ (like @filename.py) and tell me what changes you want to make.",
                    file_tags)
            ELSE IF intent = "view"
            THEN Processed(f, FALSE,
                    IF file_tags # <<>>
                    THEN "Here are the files you requested:\n\n"
                         \o Previews(f, project_path, file_tags)
                    ELSE "I can show you files! Here are the available files:\n\n"
                         \o FileReaderTool_list_files(f, project_path, "").result
                         \o "\n\nTag any file with @ to view it (like @README.md)",
                    file_tags)
            ELSE IF intent = "analyze"
            THEN Processed(f, FALSE,
                    IF file_tags # <<>>
                    THEN "(chart) **File Analysis**:\n\n"
                         \o Analyses(f, project_path, file_tags)
                    ELSE "I can analyze files! Tag files with @ (like @app.py) to get detailed analysis.",
                    file_tags)
            ELSE IF intent = "replace"
            THEN ReplaceBranch(f, project_path, file_tags, replace_match, fault)
            ELSE Processed(f, FALSE, "", file_tags)
        Read(reading) == Branch(reading.file_tags, reading.intent, reading.replace_match)
        Default(p) ==
            IF p.raised \/ p.ai_response # "" THEN p
            ELSE [p EXCEPT !.ai_response =
                    "I'm here to help with your project! You can:\n\n"
                    \o "* **View files**: 'Show @README.md'\n"
                    \o "* **Edit files**: 'Edit @app.py to add a new function'\n"
                    \o "* **Analyze code**: 'Analyze @src/main.py'\n"
                    \o "* **Replace text**: 'Replace \"old_function\" with \"new_function\" in @app.py'\n\n"
                    \o (IF p.file_tags # <<>>
                        THEN "I see you tagged these files:\n" \o TaggedFiles(p.file_tags)
                             \o "\nWhat would you like me to do with them?"
                        ELSE "Available files in your project:\n"
                             \o FileReaderTool_list_files(f, project_path, "").result)]
        Raise(p) == IF fault >= 0 THEN [p EXCEPT !.raised = TRUE] ELSE p
    IN Raise(Default(Read(ReadingOf(message))))

\* a turn that logs the reply ahead of the message it replies to
AppendedReplyFirst(messages, user_message, ai_message) ==
    Append(Append(messages, ai_message), user_message)

\* The messages list after a turn of send_message.
Appended(messages, user_message, ai_message) ==
    Append(Append(messages, user_message), ai_message)

\* raise HTTPException(status_code=404, detail=detail)
NotFound(projects, conversations, f, n, detail) ==
    Handled(projects, conversations, f, n, 404, [detail |-> detail])

\* user_message of a turn, n identifiers having been handed out before it
UserMessage(n, message) == [id |-> Uuid(n + 1), sender |-> "user", content |-> message]

\* ai_message of a turn whose processing came to p: the reply, or the fallback
\* reply of the except branch
AiMessage(n, p) ==
    IF p.raised
    THEN [id |-> Uuid(n + 2), sender |-> "assistant", content |-> FallbackResponse]
    ELSE [id |-> Uuid(n + 2), sender |-> "assistant", content |-> p.ai_response,
          file_tags |-> p.file_tags]

\* The end of a turn of send_message whose processing came to p and which
\* leaves the conversation the list messages.
Replied(projects, conversations, n, conversation_id, p, messages) ==
    Handled(projects,
            SetItem(conversations, conversation_id,
                    [conversations[conversation_id] EXCEPT !.messages = messages]),
            p.fs, n + 2, 200,
            IF p.raised
            THEN [message_id |-> Uuid(n + 2), response |-> FallbackResponse]
            ELSE [message_id |-> Uuid(n + 2), response |-> p.ai_response,
                  file_tags |-> p.file_tags])

\* send_message whose except branch logs no fallback reply
SendMessageSilentOnError(projects, conversations, f, n, conversation_id, message, fault) ==
    LET Turn(conversation, p) ==
            Replied(projects, conversations, n, conversation_id, p,
                    IF p.raised THEN Append(conversation.messages, UserMessage(n, message))
                    ELSE Appended(conversation.messages, UserMessage(n, message),
                                  AiMessage(n, p)))
        Start(conversation) ==
            Turn(conversation,
                 MessageProcessing(f, projects[conversation.project_id].path, message, fault))
    IN IF conversation_id \notin DOMAIN conversations
       THEN NotFound(projects, conversations, f, n, "Conversation not found")
       ELSE Start(conversations[conversation_id])

\* send_message that starts the log afresh with each turn
SendMessageStartsAfresh(projects, conversations, f, n, conversation_id, message, fault) ==
    LET Turn(conversation, p) ==
            Replied(projects, conversations, n, conversation_id, p,
                    <<UserMessage(n, message), AiMessage(n, p)>>)
        Start(conversation) ==
            Turn(conversation,
                 MessageProcessing(f, projects[conversation.project_id].path, message, fault))
    IN IF conversation_id \notin DOMAIN conversations
       THEN NotFound(projects, conversations, f, n, "Conversation not found")
       ELSE Start(conversations[conversation_id])

\* POST /conversations/{conversation_id}/messages
send_message(projects, conversations, f, n, conversation_id, message, fault) ==
    LET Turn(conversation, p) ==
            Replied(projects, conversations, n, conversation_id, p,
                    Appended(conversation.messages, UserMessage(n, message),
                             AiMessage(n, p)))
        Start(conversation) ==
            Turn(conversation,
                 MessageProcessing(f, projects[conversation.project_id].path, message, fault))
    IN IF conversation_id \notin DOMAIN conversations
       THEN NotFound(projects, conversations, f, n, "Conversation not found")
       ELSE Start(conversations[conversation_id])

\* create_conversation without the test of the project id
CreateConversationUnchecked(projects, conversations, f, n, project_id, title, initial_message) ==
    Handled(projects,
            SetItem(conversations, Uuid(n + 1),
                    [id |-> Uuid(n + 1), project_id |-> project_id, title |-> title,
                     messages |-> <<[id |-> Uuid(n + 2), sender |-> "user",
                                     content |-> initial_message]>>]),
            f, n + 2, 200,
            [conversation_id |-> Uuid(n + 1),
             message |-> "Conversation created successfully"])

\* POST /conversations
create_conversation(projects, conversations, f, n, project_id, title, initial_message) ==
    IF project_id \notin DOMAIN projects
    THEN NotFound(projects, conversations, f, n, "Project not found")
    ELSE Handled(projects,
                 SetItem(conversations, Uuid(n + 1),
                         [id |-> Uuid(n + 1), project_id |-> project_id, title |-> title,
                          messages |-> <<[id |-> Uuid(n + 2), sender |-> "user",
                                          content |-> initial_message]>>]),
                 f, n + 2, 200,
                 [conversation_id |-> Uuid(n + 1),
                  message |-> "Conversation created successfully"])

\* GET /conversations/{conversation_id}
get_conversation(projects, conversations, f, n, conversation_id) ==
    IF conversation_id \notin DOMAIN conversations
    THEN NotFound(projects, conversations, f, n, "Conversation not found")
    ELSE Handled(projects, conversations, f, n, 200, conversations[conversation_id])

\* POST /files/read
read_file(projects, conversations, f, n, project_id, file_path) ==
    LET Answer(o) ==
            Handled(projects, conversations, o.fs, n, 200,
                    [project_id |-> project_id, file_path |-> file_path,
                     content |-> o.result])
    IN IF project_id \notin DOMAIN projects
       THEN NotFound(projects, conversations, f, n, "Project not found")
       ELSE Answer(FileReaderTool_read_file(f, projects[project_id].path, file_path))

\* GET /files/list/{project_id}
list_project_files(projects, conversations, f, n, project_id, directory) ==
    LET Answer(o) ==
            Handled(projects, conversations, o.fs, n, 200,
                    [project_id |-> project_id, directory |-> directory,
                     files |-> o.result])
    IN IF project_id \notin DOMAIN projects
       THEN NotFound(projects, conversations, f, n, "Project not found")
       ELSE Answer(FileReaderTool_list_files(f, projects[project_id].path, directory))

\* POST /files/edit
edit_file(projects, conversations, f, n, project_id, file_path, content, operation) ==
    LET Answer(o) ==
            Handled(projects, conversations, o.fs, n, 200,
                    [project_id |-> project_id, file_path |-> file_path,
                     operation |-> operation, result |-> o.result])
    IN IF project_id \notin DOMAIN projects
       THEN NotFound(projects, conversations, f, n, "Project not found")
       ELSE Answer(FileEditorTool_edit_file(f, projects[project_id].path, file_path,
                                            content, operation))

\* POST /files/search-replace
search_replace_file(projects, conversations, f, n, project_id, file_path, search_text, replace_text) ==
    LET Answer(o) ==
            Handled(projects, conversations, o.fs, n, 200,
                    [project_id |-> project_id, file_path |-> file_path,
                     result |-> o.result])
    IN IF project_id \notin DOMAIN projects
       THEN NotFound(projects, conversations, f, n, "Project not found")
       ELSE Answer(FileEditorTool_search_and_replace(f, projects[project_id].path,
                                                     file_path, search_text, replace_text))

\* POST /files/create
create_file(projects, conversations, f, n, project_id, file_path, content) ==
    LET Answer(o) ==
            Handled(projects, conversations, o.fs, n, 200,
                    [project_id |-> project_id, file_path |-> file_path,
                     result |-> o.result])
    IN IF project_id \notin DOMAIN projects
       THEN NotFound(projects, conversations, f, n, "Project not found")
       ELSE Answer(FileEditorTool_create_file(f, projects[project_id].path, file_path,
                                              content))

\* --------------------------------------------------- the file tool calls

\* One project's tools: FileReaderTool(project_path), FileEditorTool(project_path).
ProjectPath == "projects/p1"

ProjectRoot == <<"app", "projects", "p1">>

\* The filesystem the calls start from: the project with two files in it, and
\* a file of the host outside it.
BaseFs ==
    [q \in {<<"app">>, <<"app", "projects">>, ProjectRoot,
            Append(ProjectRoot, "README.md"), Append(ProjectRoot, "a.txt"),
            <<"etc">>, <<"etc", "passwd">>} |->
        IF q = Append(ProjectRoot, "README.md") THEN FileEntry("# p")
        ELSE IF q = Append(ProjectRoot, "a.txt") THEN FileEntry("ab")
        ELSE IF q = <<"etc", "passwd">> THEN FileEntry("b")
        ELSE DirEntry]

\* The file_path arguments of the calls.
FilePaths == {"a.txt", "sub/n.txt", "../x.txt", "/etc/passwd"}

\* The content arguments of the calls.
Payloads == {"a", "ba"}

\* The operation arguments of edit_file; merge is none of its three.
Operations == {"replace", "append", "prepend", "merge"}

\* The search and replace texts of the calls.
Patterns == {"a", "b"}

\* No file grew beyond the bound.
Bounded(f) == \A q \in DOMAIN f : Len(f[q].content) <= MaxLen

ReadFile ==
    \E p \in FilePaths :
        \E o \in {FileReaderTool_read_file(fs, ProjectPath, p)} :
           /\ fs' = o.fs
           /\ tool_call' = [NoCall EXCEPT !.op = "read_file", !.file_path = p,
                                          !.result = o.result]
           /\ ncalls < MaxCalls
           /\ ncalls' = ncalls + 1
           /\ UNCHANGED <<rt, execVars, convVars, agentVars, handlers>>

EditFile ==
    \E p \in FilePaths, c \in Payloads, operation \in Operations :
        \E o \in {FileEditorTool_edit_file(fs, ProjectPath, p, c, operation)} :
           /\ Bounded(o.fs)
           /\ fs' = o.fs
           /\ tool_call' = [NoCall EXCEPT !.op = "edit_file", !.file_path = p,
                                          !.content = c, !.operation = operation,
                                          !.result = o.result]
           /\ ncalls < MaxCalls
           /\ ncalls' = ncalls + 1
           /\ UNCHANGED <<rt, execVars, convVars, agentVars, handlers>>

SearchAndReplace ==
    \E p \in FilePaths, s \in Patterns, r \in Patterns :
        \E o \in {FileEditorTool_search_and_replace(fs, ProjectPath, p, s, r)} :
           /\ Bounded(o.fs)
           /\ fs' = o.fs
           /\ tool_call' = [NoCall EXCEPT !.op = "search_and_replace", !.file_path = p,
                                          !.search_text = s, !.replace_text = r,
                                          !.result = o.result]
           /\ ncalls < MaxCalls
           /\ ncalls' = ncalls + 1
           /\ UNCHANGED <<rt, execVars, convVars, agentVars, handlers>>

CreateFile ==
    \E p \in FilePaths, c \in Payloads :
        \E o \in {FileEditorTool_create_file(fs, ProjectPath, p, c)} :
           /\ Bounded(o.fs)
           /\ fs' = o.fs
           /\ tool_call' = [NoCall EXCEPT !.op = "create_file", !.file_path = p,
                                          !.content = c, !.result = o.result]
           /\ ncalls < MaxCalls
           /\ ncalls' = ncalls + 1
           /\ UNCHANGED <<rt, execVars, convVars, agentVars, handlers>>

FileInit ==
    /\ fs = BaseFs
    /\ tool_call = NoCall
    /\ NoDispatch
    /\ handlers = NoHandlers
    /\ ncalls = 0
    /\ rt = NoRoundTrip
    /\ NoAgent
    /\ NoService

FileNext == ReadFile \/ EditFile \/ SearchAndReplace \/ CreateFile

\* The File Tool calls on one project, in any order.
FileSpec == FileInit /\ [][FileNext]_vars

\* ------------------------------------------------- edits of a file at hand

\* What a.txt holds when the edits start: nothing, a letter, or a carriage
\* return, the line end of a file that came from elsewhere.
EditContents == {"", "b", "\r"}

EditInit ==
    /\ \E c \in EditContents : fs = Put(BaseFs, Append(ProjectRoot, "a.txt"), FileEntry(c))
    /\ tool_call = NoCall
    /\ NoDispatch
    /\ handlers = NoHandlers
    /\ ncalls = 0
    /\ rt = NoRoundTrip
    /\ NoAgent
    /\ NoService

EditNext == ReadFile \/ EditFile

\* edit_file and read_file on a project whose a.txt is at hand.
EditSpec == EditInit /\ [][EditNext]_vars

\* ------------------------------------------------- writes that fail

\* The most characters of a write that reach the file before it raises.
MaxWritten == 1

\* How a write ends: it completes, or it raises with so many characters of
\* its text in the file.
Writes == {NoFault} \cup 0..MaxWritten

WriteEditFile ==
    \E p \in FilePaths, c \in Payloads, operation \in Operations, written \in Writes :
        \E o \in {EditFileWriting(fs, ProjectPath, p, c, operation, written)} :
           /\ Bounded(o.fs)
           /\ fs' = o.fs
           /\ tool_call' = [NoCall EXCEPT !.op = "edit_file", !.file_path = p,
                                          !.content = c, !.operation = operation,
                                          !.result = o.result]
           /\ ncalls < MaxCalls
           /\ ncalls' = ncalls + 1
           /\ UNCHANGED <<rt, execVars, convVars, agentVars, handlers>>

WriteSearchAndReplace ==
    \E p \in FilePaths, s \in Patterns, r \in Patterns, written \in Writes :
        \E o \in {SearchAndReplaceWriting(fs, ProjectPath, p, s, r, written)} :
           /\ Bounded(o.fs)
           /\ fs' = o.fs
           /\ tool_call' = [NoCall EXCEPT !.op = "search_and_replace", !.file_path = p,
                                          !.search_text = s, !.replace_text = r,
                                          !.result = o.result]
           /\ ncalls < MaxCalls
           /\ ncalls' = ncalls + 1
           /\ UNCHANGED <<rt, execVars, convVars, agentVars, handlers>>

WriteNext == ReadFile \/ WriteEditFile \/ WriteSearchAndReplace

\* The calls that edit, their writes completing or not, and the reads.
WriteSpec == FileInit /\ [][WriteNext]_vars

\* ------------------------------------------- search and replace, and back

\* The longest search or replace text of the round trip.
MaxPattern == 2

RECURSIVE Strings(_, _)
\* every text of at most n characters of chars
Strings(chars, n) ==
    IF n = 0 THEN {""}
    ELSE LET Longer(S) == S \cup {x \o ch : x \in S, ch \in chars}
         IN Longer(Strings(chars, n - 1))

\* The contents the round trip starts from: letters and carriage returns, a
\* file with a Windows line end, and the file of the scenario.
RoundTripContents == Strings({"a", "b", "\r"}, MaxLen) \cup {"a\r\nb", "hello world"}

\* The texts the round trip searches for and puts.
RoundTripPatterns == Strings({"a", "b"}, MaxPattern) \cup {"hello", "hi"}

TheFile == Append(ProjectRoot, "a.txt")

RoundTripInit ==
    \E c \in RoundTripContents :
        /\ fs = Put(BaseFs, TheFile, FileEntry(c))
        /\ tool_call = NoCall
        /\ NoDispatch
        /\ handlers = NoHandlers
        /\ ncalls = 0
        /\ rt = [NoRoundTrip EXCEPT !.original = c]
        /\ NoAgent
        /\ NoService

\* search_and_replace(path, s, r)
RoundTripFirst ==
    /\ rt.step = 0
    /\ \E s \in RoundTripPatterns, r \in RoundTripPatterns :
         \E o \in {FileEditorTool_search_and_replace(fs, ProjectPath, "a.txt", s, r)} :
            /\ fs' = o.fs
            /\ tool_call' = [NoCall EXCEPT !.op = "search_and_replace",
                                           !.file_path = "a.txt", !.search_text = s,
                                           !.replace_text = r, !.result = o.result]
            /\ rt' = [rt EXCEPT !.step = 1, !.s = s, !.r = r]
            /\ ncalls' = ncalls + 1
            /\ UNCHANGED <<execVars, convVars, agentVars, handlers>>

\* followed immediately by search_and_replace(path, r, s)
RoundTripSecond ==
    /\ rt.step = 1
    /\ \E o \in {FileEditorTool_search_and_replace(fs, ProjectPath, "a.txt", rt.r, rt.s)} :
         /\ fs' = o.fs
         /\ tool_call' = [NoCall EXCEPT !.op = "search_and_replace",
                                        !.file_path = "a.txt", !.search_text = rt.r,
                                        !.replace_text = rt.s, !.result = o.result]
         /\ rt' = [rt EXCEPT !.step = 2]
         /\ ncalls' = ncalls + 1
         /\ UNCHANGED <<execVars, convVars, agentVars, handlers>>

RoundTripNext == RoundTripFirst \/ RoundTripSecond

\* One search_and_replace on a file of any content, and the reverse one after it.
RoundTripSpec == RoundTripInit /\ [][RoundTripNext]_vars

\* ------------------------------------------------------- the service

MaxUuid == 7
MaxProjects == 1
MaxFileRequests == 1

\* The disk when the service starts: startup_event made ./projects and
\* ./conversations.
ServiceFs ==
    (<<"app">> :> DirEntry) @@ (<<"app", "projects">> :> DirEntry)
    @@ (<<"app", "conversations">> :> DirEntry)

ProjectNames == {"demo"}
LocalPaths == {""}
Clock == {"2025-01-01 00:00:00"}
Titles == {"chat"}
Unknown == "nope"

\* the faults that differ for a message: none, or an exception once 0, 1, ...
\* of its tagged files were handled
Faults(message) == {NoFault} \cup 0..Len(ReadingOf(message).file_tags)

\* A handler ran: the service holds what it left.
Serve(op, request, h) ==
    /\ projects_registry' = h.projects
    /\ conversations_registry' = h.conversations
    /\ fs' = h.fs
    /\ uuid_count' = h.uuid_count
    /\ response' = [op |-> op, request |-> request, status |-> h.status, body |-> h.body]
    /\ UNCHANGED <<tool_call, rt, execVars, agentVars, handlers>>

CreateProject ==
    /\ uuid_count + 1 <= MaxUuid
    /\ Cardinality(DOMAIN projects_registry) < MaxProjects
    /\ \E name \in ProjectNames, local_path \in LocalPaths, now \in Clock :
         \E h \in {create_project(projects_registry, conversations_registry, fs,
                                  uuid_count, name, "", local_path, now)} :
            /\ Serve("create_project", [name |-> name, local_path |-> local_path], h)
            /\ UNCHANGED ncalls

CreateConversation ==
    /\ uuid_count + 2 <= MaxUuid
    /\ \E project_id \in DOMAIN projects_registry \cup {Unknown}, title \in Titles :
         \E h \in {create_conversation(projects_registry, conversations_registry, fs,
                                       uuid_count, project_id, title, "hi")} :
            /\ Serve("create_conversation", [project_id |-> project_id], h)
            /\ UNCHANGED ncalls

GetConversation ==
    \E conversation_id \in DOMAIN conversations_registry \cup {Unknown} :
        \E h \in {get_conversation(projects_registry, conversations_registry, fs,
                                   uuid_count, conversation_id)} :
            /\ Serve("get_conversation", [conversation_id |-> conversation_id], h)
            /\ UNCHANGED ncalls

SendMessage ==
    /\ uuid_count + 2 <= MaxUuid
    /\ \E conversation_id \in DOMAIN conversations_registry \cup {Unknown},
          message \in Messages :
         \E fault \in Faults(message) :
            \E h \in {send_message(projects_registry, conversations_registry, fs,
                                   uuid_count, conversation_id, message, fault)} :
               /\ Serve("send_message",
                        [conversation_id |-> conversation_id, message |-> message,
                         fault |-> fault], h)
               /\ UNCHANGED ncalls

FilesRead ==
    /\ ncalls < MaxFileRequests
    /\ \E project_id \in DOMAIN projects_registry \cup {Unknown} :
         \E h \in {read_file(projects_registry, conversations_registry, fs, uuid_count,
                             project_id, "app.py")} :
            /\ Serve("read_file", [project_id |-> project_id, file_path |-> "app.py"], h)
            /\ ncalls' = ncalls + 1

FilesList ==
    /\ ncalls < MaxFileRequests
    /\ \E project_id \in DOMAIN projects_registry \cup {Unknown} :
         \E h \in {list_project_files(projects_registry, conversations_registry, fs,
                                      uuid_count, project_id, "")} :
            /\ Serve("list_project_files", [project_id |-> project_id], h)
            /\ ncalls' = ncalls + 1

FilesEdit ==
    /\ ncalls < MaxFileRequests
    /\ \E project_id \in DOMAIN projects_registry \cup {Unknown} :
         \E h \in {edit_file(projects_registry, conversations_registry, fs, uuid_count,
                             project_id, "app.py", "foo", "replace")} :
            /\ Serve("edit_file", [project_id |-> project_id], h)
            /\ ncalls' = ncalls + 1

FilesSearchReplace ==
    /\ ncalls < MaxFileRequests
    /\ \E project_id \in DOMAIN projects_registry \cup {Unknown} :
         \E h \in {search_replace_file(projects_registry, conversations_registry, fs,
                                       uuid_count, project_id, "app.py", "bar", "foo")} :
            /\ Serve("search_replace_file", [project_id |-> project_id], h)
            /\ ncalls' = ncalls + 1

FilesCreate ==
    /\ ncalls < MaxFileRequests
    /\ \E project_id \in DOMAIN projects_registry \cup {Unknown} :
         \E h \in {create_file(projects_registry, conversations_registry, fs, uuid_count,
                               project_id, "app.py", "foo")} :
            /\ Serve("create_file", [project_id |-> project_id, file_path |-> "app.py"], h)
            /\ ncalls' = ncalls + 1

ServiceInit ==
    /\ fs = ServiceFs
    /\ tool_call = NoCall
    /\ NoDispatch
    /\ handlers = NoHandlers
    /\ ncalls = 0
    /\ rt = NoRoundTrip
    /\ NoAgent
    /\ NoService

ServiceNext ==
    \/ CreateProject \/ CreateConversation \/ GetConversation \/ SendMessage
    \/ FilesRead \/ FilesList \/ FilesEdit \/ FilesSearchReplace \/ FilesCreate

\* The requests to the service, one handler at a time.
ServiceSpec == ServiceInit /\ [][ServiceNext]_vars

\* ------------------------------------------------- the turns that edit

\* What a file of the project holds when the turns start: <<>> for no file.
AppSeeds == {<<>>, <<"foo">>, <<"x = foo + foo">>}
LibSeeds == {<<>>, <<"foo">>, <<"x">>}

\* POST /files/create for a seed, no request for none
Seeded(h, project_id, file_path, seed) ==
    IF seed = <<>> THEN h
    ELSE create_file(h.projects, h.conversations, h.fs, h.uuid_count, project_id,
                     file_path, seed[1])

\* The service after a project was created, app.py and lib.py were created in
\* it as seeded, and a conversation on it was started.
Started(app_seed, lib_seed, now) ==
    LET Talk(h) ==
            create_conversation(h.projects, h.conversations, h.fs, h.uuid_count,
                                Uuid(1), "chat", "hi")
        Lib(h) == Talk(Seeded(h, Uuid(1), "lib.py", lib_seed))
        App(h) == Lib(Seeded(h, Uuid(1), "app.py", app_seed))
    IN App(create_project(EmptyRegistry, EmptyRegistry, ServiceFs, 0, "demo", "", "", now))

TurnInit ==
    /\ tool_call = NoCall
    /\ NoDispatch
    /\ handlers = NoHandlers
    /\ rt = NoRoundTrip
    /\ NoAgent
    /\ \E app_seed \in AppSeeds, lib_seed \in LibSeeds, now \in Clock :
         \E h \in {Started(app_seed, lib_seed, now)} :
            /\ projects_registry = h.projects
            /\ conversations_registry = h.conversations
            /\ fs = h.fs
            /\ uuid_count = h.uuid_count
            /\ ncalls = 0
            /\ response = [op |-> "create_conversation",
                           request |-> [project_id |-> Uuid(1)],
                           status |-> h.status, body |-> h.body]

\* POST /conversations/{conversation_id}/messages with a message that edits
TurnSendMessage ==
    /\ uuid_count + 2 <= MaxUuid
    /\ \E conversation_id \in DOMAIN conversations_registry, message \in TurnMessages :
         \E fault \in Faults(message) :
            \E h \in {send_message(projects_registry, conversations_registry, fs,
                                   uuid_count, conversation_id, message, fault)} :
               /\ Serve("send_message",
                        [conversation_id |-> conversation_id, message |-> message,
                         fault |-> fault], h)
               /\ UNCHANGED ncalls

TurnNext == TurnSendMessage \/ GetConversation \/ FilesRead \/ FilesCreate

\* Turns that edit and requests for a file, on a project whose files are
\* seeded.
TurnSpec == TurnInit /\ [][TurnNext]_vars

\* ------------------------------------------- the turns that are told apart

\* What app.py holds when these turns start: <<>> for no file.
IntentSeeds == {<<>>, <<"x = foo + foo">>, <<"def foo():\n  pass\n">>}

IntentInit ==
    /\ tool_call = NoCall
    /\ NoDispatch
    /\ handlers = NoHandlers
    /\ rt = NoRoundTrip
    /\ NoAgent
    /\ \E app_seed \in IntentSeeds, now \in Clock :
         \E h \in {Started(app_seed, <<>>, now)} :
            /\ projects_registry = h.projects
            /\ conversations_registry = h.conversations
            /\ fs = h.fs
            /\ uuid_count = h.uuid_count
            /\ ncalls = 0
            /\ response = [op |-> "create_conversation",
                           request |-> [project_id |-> Uuid(1)],
                           status |-> h.status, body |-> h.body]

\* POST /conversations/{conversation_id}/messages with one of IntentMessages
IntentSendMessage ==
    /\ uuid_count + 2 <= MaxUuid
    /\ \E conversation_id \in DOMAIN conversations_registry, message \in IntentMessages :
         \E fault \in Faults(message) :
            \E h \in {send_message(projects_registry, conversations_registry, fs,
                                   uuid_count, conversation_id, message, fault)} :
               /\ Serve("send_message",
                        [conversation_id |-> conversation_id, message |-> message,
                         fault |-> fault], h)
               /\ UNCHANGED ncalls

IntentNext == IntentSendMessage \/ GetConversation \/ FilesRead

\* Turns whose messages tell the branches of send_message apart, on a project
\* whose app.py is seeded.
IntentSpec == IntentInit /\ [][IntentNext]_vars

\* ------------------------------------------------------- the event loop

\* The messages of the turns in flight.
LoopMessages == {"hello", "replace \"foo\" with \"bar\" in @app.py"}

\* The service after a project was created, app.py was created in it holding
\* 'x = foo', and two conversations on it were started.
LoopStart ==
    LET Talk(h) ==
            create_conversation(h.projects, h.conversations, h.fs, h.uuid_count,
                                Uuid(1), "chat", "hi")
    IN Talk(Started(<<"x = foo">>, <<>>, CHOOSE now \in Clock : TRUE))

\* The requests in flight: turns on either conversation, and search-replace
\* and edit requests, all on app.py.
LoopRequests ==
    {[op |-> "send_message", conversation_id |-> c, message |-> message] :
        c \in DOMAIN LoopStart.conversations, message \in LoopMessages}
    \cup {[op |-> "search_replace_file", project_id |-> Uuid(1), file_path |-> "app.py",
           search_text |-> t[1], replace_text |-> t[2]] :
             t \in {<<"foo", "bar">>, <<"x", "foo">>}}
    \cup {[op |-> "edit_file", project_id |-> Uuid(1), file_path |-> "app.py",
           content |-> "x", operation |-> operation] :
             operation \in {"append", "prepend"}}

\* a scheduler that lets any handler in flight take its next step
RunnableAnytime(hs, i) ==
    hs[i].pc \notin {"idle", "done"}

\* a scheduler on which only the handlers of the file requests keep the
\* others from running; the handlers of turns give way between their steps
RunnableBesideTurns(hs, i) ==
    /\ hs[i].pc \notin {"idle", "done"}
    /\ \A j \in DOMAIN hs \ {i} :
          hs[j].pc \in {"idle", "start", "done"} \/ hs[j].op = "send_message"

\* The event loop may run the next step of handler i: the handlers are
\* coroutines of one loop and none awaits inside its body, so that once a body
\* has begun no other handler runs until it has returned.
Runnable(hs, i) ==
    /\ hs[i].pc \notin {"idle", "done"}
    /\ \A j \in DOMAIN hs \ {i} : hs[j].pc \in {"idle", "start", "done"}

\* handler i returns: its response is the last one sent
Returned(i, status, body) ==
    /\ handlers' = [handlers EXCEPT ![i].pc = "done"]
    /\ response' = [op |-> handlers[i].op, request |-> handlers[i].request,
                    status |-> status, body |-> body]

\* A request arrives and its handler is scheduled.
Accept(i) ==
    /\ handlers[i].pc = "idle"
    /\ \E request \in LoopRequests :
          handlers' = [handlers EXCEPT ![i] = [op |-> request.op, request |-> request,
                                               pc |-> "start", content |-> ""]]
    /\ UNCHANGED <<fs, tool_call, ncalls, rt, execVars, convVars, agentVars>>

\* A step of send_message: the user message is appended, then the message is
\* processed and the reply is appended.
SendMessageStep(i) ==
    /\ handlers[i].op = "send_message"
    /\ Runnable(handlers, i)
    /\ LET Log(conversation_id, entry) ==
               conversations_registry' =
                   SetItem(conversations_registry, conversation_id,
                           [conversations_registry[conversation_id] EXCEPT
                               !.messages = Append(@, entry)])
           Reply(request, p) ==
               /\ fs' = p.fs
               /\ Log(request.conversation_id, AiMessage(uuid_count - 1, p))
               /\ Returned(i, 200, [message_id |-> Uuid(uuid_count + 1),
                                    response |-> p.ai_response,
                                    file_tags |-> p.file_tags])
           Step(request, pc) ==
               IF pc = "start"
               THEN /\ Log(request.conversation_id, UserMessage(uuid_count, request.message))
                    /\ handlers' = [handlers EXCEPT ![i].pc = "user_added"]
                    /\ UNCHANGED <<fs, response>>
               ELSE Reply(request,
                          MessageProcessing(
                              fs,
                              projects_registry[
                                  conversations_registry[request.conversation_id].project_id].path,
                              request.message, NoFault))
       IN Step(handlers[i].request, handlers[i].pc)
    /\ uuid_count' = uuid_count + 1
    /\ UNCHANGED <<projects_registry, tool_call, ncalls, rt, execVars, agentVars>>

\* A step of search_replace_file: the file is read, then the new content is
\* written.
SearchReplaceStep(i) ==
    /\ handlers[i].op = "search_replace_file"
    /\ Runnable(handlers, i)
    /\ LET Answer(request, g, result) ==
               /\ fs' = g
               /\ Returned(i, 200, [project_id |-> request.project_id,
                                    file_path |-> request.file_path, result |-> result])
           Write(request, w) ==
               Answer(request, w.fs,
                      IF w.err # ""
                      THEN "(x) Error during search and replace in " \o request.file_path
                           \o ": " \o w.err
                      ELSE "(ok) Replaced '" \o request.search_text \o "' with '"
                           \o request.replace_text \o "' in " \o request.file_path)
           Step(request, pc, full, r) ==
               IF pc = "start"
               THEN IF r.err # "" \/ ~Exists(fs, r.real)
                    THEN Answer(request, fs, "(x) File not found: " \o request.file_path)
                    ELSE IF IsDir(fs, r.real)
                    THEN Answer(request, fs,
                                "(x) Error during search and replace in "
                                \o request.file_path \o ": EISDIR")
                    ELSE /\ handlers' = [handlers EXCEPT ![i].pc = "read",
                                                         ![i].content = ReadText(fs, r.real)]
                         /\ UNCHANGED <<fs, response>>
               ELSE IF ~Contains(handlers[i].content, request.search_text)
                    THEN Answer(request, fs,
                                "(x) Search text not found in " \o request.file_path)
                    ELSE Write(request,
                               OpenWrite(fs, full, "w",
                                         NewContent(handlers[i].content, request.search_text,
                                                    request.replace_text)))
           Start(request, full) == Step(request, handlers[i].pc, full, Resolve(fs, full))
       IN Start(handlers[i].request,
                FullPath(projects_registry[handlers[i].request.project_id].path,
                         handlers[i].request.file_path))
    /\ UNCHANGED <<projects_registry, conversations_registry, uuid_count, tool_call,
                   ncalls, rt, execVars, agentVars>>

\* A step of edit_file: an append is one write; a prepend reads the file,
\* then writes the new content before what it read.
EditFileStep(i) ==
    /\ handlers[i].op = "edit_file"
    /\ Runnable(handlers, i)
    /\ LET Answer(request, g, result) ==
               /\ fs' = g
               /\ Returned(i, 200, [project_id |-> request.project_id,
                                    file_path |-> request.file_path,
                                    operation |-> request.operation, result |-> result])
           Whole(request, o) == Answer(request, o.fs, o.result)
           Write(request, w) ==
               Answer(request, w.fs,
                      IF w.err # ""
                      THEN "(x) Error editing file " \o request.file_path \o ": " \o w.err
                      ELSE "(ok) Content prepended to " \o request.file_path)
           Read(mk, r) ==
               /\ fs' = mk.fs
               /\ handlers' = [handlers EXCEPT
                                  ![i].pc = "read",
                                  ![i].content = IF r.err = "" /\ IsFile(mk.fs, r.real)
                                                 THEN ReadText(mk.fs, r.real) ELSE ""]
               /\ UNCHANGED response
           Step(request, pc, project_path, full) ==
               IF pc = "read"
               THEN Write(request,
                          OpenWrite(fs, full, "w",
                                    request.content \o "\n" \o handlers[i].content))
               ELSE IF /\ request.operation = "prepend"
                       /\ MkdirParents(fs, full).err = ""
                       /\ ~IsDir(fs, Resolve(fs, full).real)
                    THEN Read(MkdirParents(fs, full), Resolve(MkdirParents(fs, full).fs, full))
                    ELSE Whole(request,
                               FileEditorTool_edit_file(fs, project_path, request.file_path,
                                                        request.content, request.operation))
           Start(request, project_path) ==
               Step(request, handlers[i].pc, project_path,
                    FullPath(project_path, request.file_path))
       IN Start(handlers[i].request, projects_registry[handlers[i].request.project_id].path)
    /\ UNCHANGED <<projects_registry, conversations_registry, uuid_count, tool_call,
                   ncalls, rt, execVars, agentVars>>

LoopInit ==
    /\ tool_call = NoCall
    /\ NoDispatch
    /\ handlers = NoHandlers
    /\ rt = NoRoundTrip
    /\ NoAgent
    /\ ncalls = 0
    /\ projects_registry = LoopStart.projects
    /\ conversations_registry = LoopStart.conversations
    /\ fs = LoopStart.fs
    /\ uuid_count = LoopStart.uuid_count
    /\ response = [op |-> "create_conversation", request |-> [project_id |-> Uuid(1)],
                   status |-> LoopStart.status, body |-> LoopStart.body]

LoopNext ==
    \E i \in DOMAIN handlers :
       Accept(i) \/ SendMessageStep(i) \/ SearchReplaceStep(i) \/ EditFileStep(i)

\* Requests that arrive while others are in flight, their handlers run by the
\* event loop.
LoopSpec == LoopInit /\ [][LoopNext]_vars

\* ------------------------------------------------------ importing a project

\* The host of the service: its own directory with its source file, a file of
\* the host, a tidy source tree with hidden entries and a cache directory, and
\* a source tree with a link up to the directory of the service.
ImportFs ==
    LET dirs == {<<"app">>, <<"app", "projects">>, <<"app", "conversations">>,
                 <<"etc">>, <<"srv">>, <<"srv", "lib">>, <<"srv", "lib", ".git">>,
                 <<"srv", "lib", "__pycache__">>, <<"srv", "site">>}
        files == {<<"app", "main.py">>, <<"etc", "passwd">>, <<"srv", "lib", "u.py">>,
                  <<"srv", "lib", ".env">>, <<"srv", "lib", ".git", "config">>,
                  <<"srv", "lib", "__pycache__", "u.pyc">>,
                  <<"srv", "site", "index.html">>}
        links == {<<"srv", "site", "all">>}
    IN [q \in dirs \cup files \cup links |->
           IF q \in dirs THEN DirEntry
           ELSE IF q \in links THEN LinkEntry(<<"app">>)
           ELSE FileEntry(q[Len(q)])]

\* What an earlier run left in ./projects under the identifier to come:
\* nothing, a project directory, or the link of a project that was linked.
Leftovers == {"none", "dir", "link"}

\* the host with what an earlier run left
WithLeftover(f, left) ==
    LET project_dir == Cwd \o <<"projects", Uuid(1)>>
    IN IF left = "dir"
       THEN Put(Put(f, project_dir, DirEntry), Append(project_dir, "old.txt"),
                FileEntry("old"))
       ELSE IF left = "link" THEN Put(f, project_dir, LinkEntry(<<"srv", "lib">>))
       ELSE f

\* The local_path values of the imports: none, the directory of the service,
\* the two source trees, and a path that does not exist.
ImportPaths == {"", ".", "/srv/lib", "/srv/site", "/nowhere"}

\* The file_path values of the requests to an imported project.
ImportFilePaths == {"notes.txt", "../x.txt", "/etc/passwd"}

\* The number of POST /projects requests in one run.
MaxImports == 2

ImportInit ==
    /\ \E left \in Leftovers : fs = WithLeftover(ImportFs, left)
    /\ tool_call = NoCall
    /\ NoDispatch
    /\ handlers = NoHandlers
    /\ ncalls = 0
    /\ rt = NoRoundTrip
    /\ NoAgent
    /\ NoService

\* POST /projects with a local_path
ImportCreateProject ==
    /\ uuid_count < MaxImports
    /\ Cardinality(DOMAIN projects_registry) < MaxProjects
    /\ \E local_path \in ImportPaths, now \in Clock :
         \E h \in {create_project(projects_registry, conversations_registry, fs,
                                  uuid_count, "demo", "", local_path, now)} :
            /\ Serve("create_project", [local_path |-> local_path], h)
            /\ UNCHANGED ncalls

\* POST /files/edit on a project
ImportFilesEdit ==
    /\ ncalls < MaxCalls
    /\ \E project_id \in DOMAIN projects_registry, file_path \in ImportFilePaths :
         \E h \in {edit_file(projects_registry, conversations_registry, fs, uuid_count,
                             project_id, file_path, "a", "replace")} :
            /\ Serve("edit_file", [project_id |-> project_id, file_path |-> file_path], h)
            /\ ncalls' = ncalls + 1

\* POST /files/read on a project
ImportFilesRead ==
    /\ ncalls < MaxCalls
    /\ \E project_id \in DOMAIN projects_registry, file_path \in ImportFilePaths :
         \E h \in {read_file(projects_registry, conversations_registry, fs, uuid_count,
                             project_id, file_path)} :
            /\ Serve("read_file", [project_id |-> project_id, file_path |-> file_path], h)
            /\ ncalls' = ncalls + 1

ImportNext == ImportCreateProject \/ ImportFilesEdit \/ ImportFilesRead

\* Imports of local directories, and requests for files of what was imported.
ImportSpec == ImportInit /\ [][ImportNext]_vars

\* --------------------------------------------------------- the dispatcher

\* initialize_agents: the five agents by the names they are registered under
AgentClasses ==
    [project_manager |-> "ProjectManagerAgent", developer |-> "DeveloperAgent",
     qa |-> "QAAgent", devops |-> "DevOpsAgent", research |-> "ResearchAgent"]

\* the task types each agent's execute_task tests for
KnownTasks(class) ==
    IF class = "ProjectManagerAgent" THEN {"create_plan", "monitor", "coordinate"}
    ELSE IF class = "DeveloperAgent" THEN {"generate_structure", "execute_code", "create_api"}
    ELSE IF class = "QAAgent" THEN {"create_tests"}
    ELSE IF class = "DevOpsAgent" THEN {"create_deployment"}
    ELSE {"web_search", "scrape_docs", "research_tech", "find_examples"}

\* the error text of the else branch of each agent's execute_task
UnknownTask(class, task_type) ==
    (IF class = "ProjectManagerAgent" THEN "Unknown task type: "
     ELSE IF class = "DeveloperAgent" THEN "Unknown development task type: "
     ELSE IF class = "QAAgent" THEN "Unknown QA task type: "
     ELSE IF class = "DevOpsAgent" THEN "Unknown DevOps task type: "
     ELSE "Unknown research task type: ") \o task_type

\* task.get('type', 'unknown')
TaskType(task) == IF "type" \in DOMAIN task THEN task.type ELSE "unknown"

\* What execute_task returns or raises: the dictionary's error and status
\* entries, and the text of the exception when it raises.
TaskResult(error, status, raised) ==
    [error |-> error, status |-> status, raised |-> raised, temps |-> 0,
     running |-> 0, runs |-> 0]

\* execute_task of the agent of a class.  A task type the agent knows goes to
\* the method that does the work, here by how it ends: it returns, or it raises;
\* execute_code runs the code.  Every agent but the project manager catches
\* what the method raises.
execute_task(class, task, enabled, client, outcome) ==
    IF TaskType(task) \notin KnownTasks(class)
    THEN TaskResult(UnknownTask(class, TaskType(task)), "failed", "")
    ELSE IF TaskType(task) = "execute_code"
    THEN LET Ran(x) == [TaskResult(x.error, x.status, "") EXCEPT
                           !.temps = x.temps, !.running = x.running, !.runs = x.runs]
         IN Ran(DeveloperAgent_execute_code(enabled, client, task.code,
                                            task.language, outcome))
    ELSE IF outcome = "returned" THEN TaskResult("", "completed", "")
    ELSE IF class = "ProjectManagerAgent" THEN TaskResult("", "", "AttributeError")
    ELSE TaskResult("AttributeError", "failed", "")

\* str(result) for the error and status entries of a dictionary
PyStr(result) ==
    "{" \o (IF result.error # "" THEN "'error': '" \o result.error \o "', " ELSE "")
        \o "'status': '" \o result.status \o "'}"

\* The end of a request to the dispatcher.
Dispatched(registry, calls, x, status, body) ==
    [registry |-> registry, invocations |-> calls, status |-> status, body |-> body,
     temps |-> x.temps, running |-> x.running, runs |-> x.runs]

\* POST /agents/{agent_name}/execute
execute_agent_task(registry, calls, agent_name, task, enabled, client, outcome) ==
    IF agent_name \notin DOMAIN registry
    THEN Dispatched(registry, calls, TaskResult("", "", ""), 404,
                    [detail |-> "Agent '" \o agent_name \o "' not found"])
    ELSE LET Answer(result) ==
                 IF result.raised # ""
                 THEN Dispatched(registry, calls + 1, result, 200,
                                 [agent_name |-> agent_name,
                                  response |-> "Error: " \o result.raised,
                                  task_status |-> "failed"])
                 ELSE Dispatched(registry, calls + 1, result, 200,
                                 [agent_name |-> agent_name,
                                  response |-> PyStr(result),
                                  task_status |-> "completed"])
         IN Answer(execute_task(registry[agent_name], task, enabled, client, outcome))

\* The agent names of the requests; nobody is not registered.
AgentNames == DOMAIN AgentClasses \cup {"nobody"}

\* The tasks of the requests: one each agent knows, one no agent knows, and one
\* without a type.
Tasks ==
    {[type |-> "create_plan"], [type |-> "create_tests"], [type |-> "create_deployment"],
     [type |-> "web_search"],
     [type |-> "execute_code", code |-> "print(1)", language |-> "python"],
     [type |-> "execute_code", code |-> "raise ValueError()", language |-> "ruby"],
     [type |-> "bogus"], [name |-> "untyped"]}

\* How the work of a task can end.
TaskOutcomes(task) ==
    IF TaskType(task) = "execute_code" THEN OutcomesOf(task.code)
    ELSE {"returned", "raised"}

ExecuteAgentTask ==
    \E agent_name \in AgentNames, task \in Tasks :
      \E outcome \in TaskOutcomes(task) :
        \E h \in {execute_agent_task(agent_registry, invocations, agent_name, task,
                                     sandbox_enabled, docker_client, outcome)} :
            /\ invocations < MaxCalls
            /\ agent_registry' = h.registry
            /\ invocations' = h.invocations
            /\ temp_files' = temp_files + h.temps
            /\ containers' = containers + h.running
            /\ run_calls' = run_calls + h.runs
            /\ response' = [op |-> "execute_agent_task",
                            request |-> [agent_name |-> agent_name, task |-> task],
                            status |-> h.status, body |-> h.body]
            /\ UNCHANGED <<fs, tool_call, ncalls, rt, sandbox_enabled, docker_client,
                           exec_result, nexec, projects_registry,
                           conversations_registry, uuid_count, handlers>>

\* The application once startup_event has run.
DispatchInit ==
    /\ fs = <<>>
    /\ tool_call = NoCall
    /\ ncalls = 0
    /\ rt = NoRoundTrip
    /\ \E env_value \in EnvValues, docker_available \in BOOLEAN :
           DeveloperAgent_init(env_value, docker_available)
    /\ temp_files = 0
    /\ containers = 0
    /\ run_calls = 0
    /\ exec_result = NoExecution
    /\ nexec = 0
    /\ projects_registry = EmptyRegistry
    /\ conversations_registry = EmptyRegistry
    /\ uuid_count = 0
    /\ response = NoResponse
    /\ agent_registry = AgentClasses
    /\ invocations = 0
    /\ handlers = NoHandlers

DispatchNext == ExecuteAgentTask

\* The requests to the dispatcher.
DispatchSpec == DispatchInit /\ [][DispatchNext]_vars

\* ----------------------------------------------------------------- claims

StartsWith(text, prefix) ==
    Len(text) >= Len(prefix) /\ SubSeq(text, 1, Len(prefix)) = prefix

\* path lies in the tree below root
Under(path, root) ==
    Len(path) >= Len(root) /\ SubSeq(path, 1, Len(root)) = root

\* file_path resolves to a real path outside the project's real root
Escapes(f, file_path) ==
    ~Under(Resolve(f, FullPath(ProjectPath, file_path)).real,
           Resolve(f, FullPath(ProjectPath, "")).real)

\* The call reported a failure: read_file returns no content, the editor's
\* result is marked (x).
IsFailure(call) ==
    IF call.op = "read_file" THEN ~StartsWith(call.result, "File: ")
    ELSE StartsWith(call.result, "(x)")

\* C1: every File Tool call on a path that resolves outside the project root
\* fails (any reported failure is taken for the PathEscape failure) and leaves
\* every file and directory as it was.
C1_EscapeRejected ==
    [][Escapes(fs, tool_call'.file_path) => (IsFailure(tool_call') /\ fs' = fs)]_vars

\* C2: create_file on a path that exists reports that the file already exists
\* and leaves the filesystem, the existing file's content included, as it was.
C2_CreateExisting ==
    [][(tool_call'.op = "create_file"
        /\ Exists(fs, Resolve(fs, FullPath(ProjectPath, tool_call'.file_path)).real))
       => (/\ tool_call'.result = "(x) File already exists: " \o tool_call'.file_path
           /\ fs' = fs)]_vars

\* a create_file of other content on the existing a.txt was refused
C2_Witness ==
    /\ tool_call.op = "create_file"
    /\ tool_call.file_path = "a.txt"
    /\ tool_call.result = "(x) File already exists: a.txt"
    /\ fs[TheFile].content = "ab"
    /\ tool_call.content # "ab"

\* s and r do not occur inside each other
Apart(s, r) == ~Contains(r, s) /\ ~Contains(s, r)

NoCharOf(r, c) ==
    \A i \in 1..Len(r) : ~Contains(c, SubSeq(r, i, i))

Occurrences(c, s) ==
    {i \in 1..(Len(c) - Len(s) + 1) : SubSeq(c, i, i + Len(s) - 1) = s}

\* P holds the occurrences of s in c met from left to right: no two overlap,
\* and every other occurrence overlaps one of P that starts before it
LeftToRight(c, s, P) ==
    /\ \A p \in P, q \in P : p < q => q >= p + Len(s)
    /\ \A q \in Occurrences(c, s) \ P : \E p \in P : p < q /\ q < p + Len(s)

RECURSIVE Substituted(_, _, _, _, _)
\* c from index i on, with r in the place of the n characters at each index of P
Substituted(c, P, n, r, i) ==
    IF i > Len(c) THEN (IF i \in P THEN r ELSE "")
    ELSE IF i \in P
         THEN IF n = 0 THEN r \o SubSeq(c, i, i) \o Substituted(c, P, n, r, i + 1)
              ELSE r \o Substituted(c, P, n, r, i + n)
         ELSE SubSeq(c, i, i) \o Substituted(c, P, n, r, i + 1)

\* C4: search_and_replace on an existing file puts replace in the place of
\* every occurrence of search in the text it read and returns a success result
\* naming the file; when search does not occur it returns the text-not-found
\* result and the file is as it was.
C4_ReplacesAll ==
    rt.step = 1 =>
        LET Holds(c) ==
                IF Occurrences(c, rt.s) = {}
                THEN /\ fs[TheFile].content = rt.original
                     /\ tool_call.result = "(x) Search text not found in a.txt"
                ELSE /\ \E P \in SUBSET Occurrences(c, rt.s) :
                           /\ LeftToRight(c, rt.s, P)
                           /\ fs[TheFile].content = Substituted(c, P, Len(rt.s), rt.r, 1)
                     /\ StartsWith(tool_call.result, "(ok)")
                     /\ Contains(tool_call.result, "a.txt")
        IN Holds(UniversalNewlines(rt.original))

\* the scenario: 'hello world', search 'hello', replace 'hi'
C4_Witness ==
    /\ rt.step = 1
    /\ rt.original = "hello world"
    /\ rt.s = "hello"
    /\ rt.r = "hi"
    /\ fs[TheFile].content = "hi world"
    /\ tool_call.result = "(ok) Replaced 'hello' with 'hi' in a.txt"

\* a search text that occurs twice in the file was replaced twice
C4_WitnessTwice ==
    /\ rt.step = 1
    /\ rt.original = "aba"
    /\ rt.s = "a"
    /\ rt.r = "bb"
    /\ fs[TheFile].content = "bbbbb"

\* C5: while the sandbox flag is off, every execute_code call returns status
\* disabled whatever the code text is, and neither a container run nor a
\* temporary file is made.
C5_DisabledSandbox ==
    ~sandbox_enabled =>
        /\ run_calls = 0
        /\ temp_files = 0
        /\ nexec > 0 => exec_result.status = "disabled"

\* with the flag off, a text that is no Python was answered with disabled
C5_Witness ==
    /\ ~sandbox_enabled
    /\ exec_result.code = "def ("
    /\ exec_result.language = "python"
    /\ exec_result.status = "disabled"
    /\ run_calls = 0

\* C6: an execution whose time budget was exceeded returned status timeout,
\* and no container is still running when the call has returned.
C6_TimeoutStatus ==
    exec_result.outcome \in BudgetExceeded =>
        (exec_result.status = "timeout" /\ containers = 0)

\* C7: when an execute_code call has returned, whatever way the run ended, no
\* temporary code file and no container of it is left.
C7_TeardownAlways ==
    nexec > 0 => (temp_files = 0 /\ containers = 0)

\* the messages of a conversation, <<>> for an id that names none
MessagesOf(conversations, conversation_id) ==
    IF conversation_id \in DOMAIN conversations
    THEN conversations[conversation_id].messages ELSE <<>>

\* how many messages of a list the assistant sent
AssistantCount(messages) ==
    Cardinality({i \in 1..Len(messages) : messages[i].sender = "assistant"})

\* The step is a send_message call on the existing conversation c.
IsTurn(c) ==
    /\ c \in DOMAIN conversations_registry
    /\ uuid_count' # uuid_count
    /\ response'.op = "send_message"
    /\ response'.request.conversation_id = c

\* C8: every send_message call on an existing conversation adds exactly one
\* assistant message to that conversation, whatever branch the message takes
\* and also when processing raises, and adds none to any other conversation.
C8_OneAssistantReply ==
    [][\A c \in DOMAIN conversations_registry :
          AssistantCount(MessagesOf(conversations_registry', c))
              = AssistantCount(conversations_registry[c].messages)
                + (IF IsTurn(c) THEN 1 ELSE 0)]_vars

\* a turn whose processing raised after one of its two files was edited was
\* answered with the fallback reply, once
C8_Witness ==
    /\ response.op = "send_message"
    /\ response.status = 200
    /\ response.request.fault = 1
    /\ Contains(response.request.message, "@lib.py")
    /\ \E p \in DOMAIN projects_registry :
          /\ IsFile(fs, Cwd \o <<"projects", p, "app.py">>)
          /\ fs[Cwd \o <<"projects", p, "app.py">>].content = "bar"
    /\ response.body.response = FallbackResponse
    /\ AssistantCount(conversations_registry[response.request.conversation_id].messages) = 1

\* C9: a send_message call on an existing conversation adds the user's message
\* first and the assistant's reply to it after, whether or not the file
\* operations of the turn failed.
C9_UserBeforeReply ==
    [][\A c \in DOMAIN conversations_registry :
          IsTurn(c) =>
              LET old == conversations_registry[c].messages
                  new == MessagesOf(conversations_registry', c)
              IN \E i, j \in (Len(old) + 1)..Len(new) :
                    /\ i < j
                    /\ new[i].sender = "user"
                    /\ new[i].content = response'.request.message
                    /\ new[j].sender = "assistant"
                    /\ new[j].id = response'.body.message_id
                    /\ \A k \in (Len(old) + 1)..i : new[k].sender = "user"]_vars

\* a turn whose search and replace found no file lies in the log, the user's
\* message right before the reply that reports the failure
C9_Witness ==
    \E c \in DOMAIN conversations_registry :
        LET messages == conversations_registry[c].messages
        IN /\ Len(messages) = 3
           /\ messages[2].sender = "user"
           /\ Contains(messages[2].content, "@lib.py")
           /\ messages[3].sender = "assistant"
           /\ Contains(messages[3].content, "(x) File not found: lib.py")

\* a is b or the start of b
IsPrefix(a, b) == Len(a) <= Len(b) /\ SubSeq(b, 1, Len(a)) = a

\* C10: whatever request is served, every conversation is still there and the
\* messages it held are the start of the messages it holds after.
C10_AppendOnly ==
    [][\A c \in DOMAIN conversations_registry :
          /\ c \in DOMAIN conversations_registry'
          /\ IsPrefix(conversations_registry[c].messages,
                      conversations_registry'[c].messages)]_vars

\* a conversation that took two turns was read after a file was written
C10_Witness ==
    /\ response.op = "get_conversation"
    /\ response.status = 200
    /\ Len(response.body.messages) = 5
    /\ ncalls > 0

\* the path on disk of the file a tag names under project_path
TaggedPath(project_path, file_tag) ==
    Resolve(fs, FullPath(project_path, file_tag)).real

\* the path of the project of conversation c
PathOf(c) == projects_registry[conversations_registry[c].project_id].path

\* The step is a turn on conversation c that raised nothing, whose message
\* takes the replace branch with a directive that parsed, and whose tags
\* name different files.
IsReplaceTurn(c) ==
    /\ IsTurn(c)
    /\ response'.request.fault = NoFault
    /\ LET Distinct(project_path, file_tags) ==
               \A i, j \in 1..Len(file_tags) :
                  i # j => TaggedPath(project_path, file_tags[i])
                           # TaggedPath(project_path, file_tags[j])
           Replaces(r) ==
               /\ r.intent = "replace"
               /\ r.replace_match.found
               /\ Distinct(PathOf(c), r.file_tags)
       IN Replaces(ReadingOf(response'.request.message))

\* search_and_replace on file_tag alone, from the state before the step, is
\* what the step left in the file and what its reply reports for it
HandledAlone(project_path, file_tag, match) ==
    LET Same(alone, real) ==
            /\ Exists(fs', real) = Exists(alone.fs, real)
            /\ Exists(fs', real) => fs'[real] = alone.fs[real]
            /\ Contains(response'.body.response,
                        "(file) " \o file_tag \o ": " \o alone.result \o "\n")
    IN Same(FileEditorTool_search_and_replace(fs, project_path, file_tag,
                                              match.search_text, match.replace_text),
            TaggedPath(project_path, file_tag))

\* C11: a turn with a replace directive applies search_and_replace to every
\* file it tags, each as if it were the only one, and reports each file's own
\* outcome; a file that fails keeps no other from being edited.
C11_EveryFileHandled ==
    [][\A c \in DOMAIN conversations_registry :
          IsReplaceTurn(c) =>
              LET Each(r) ==
                      \A i \in 1..Len(r.file_tags) :
                         HandledAlone(PathOf(c), r.file_tags[i], r.replace_match)
              IN Each(ReadingOf(response'.request.message))]_vars

\* lib.py, tagged first, held no 'foo' and was reported so; app.py, tagged
\* after it, held 'foo' and now holds 'bar'
C11_Witness ==
    /\ response.op = "send_message"
    /\ response.status = 200
    /\ response.request.fault = NoFault
    /\ response.request.message = "replace \"foo\" with \"bar\" in @lib.py @app.py"
    /\ Contains(response.body.response, "(file) lib.py: (x) Search text not found in lib.py\n")
    /\ Contains(response.body.response, "(file) app.py: (ok) Replaced 'foo' with 'bar' in app.py\n")
    /\ fs[Cwd \o <<"projects", Uuid(1), "app.py">>].content = "x = bar + bar"
    /\ fs[Cwd \o <<"projects", Uuid(1), "lib.py">>].content = "x"

\* whether a message holds one of the edit keywords, for the messages of the
\* turns that edit
HasEditKeyword == [message \in TurnMessages |-> AnyKeyword(message, EditKeywords)]

\* what the edit branch answers to a message without a tag
EditGuidance ==
    "I can help you edit files! Please tag a file with @ (like @filename.py) and tell me what changes you want to make."

\* C12: a turn whose message holds an edit keyword changes no file, whatever
\* else the message says and whether or not processing raises; without a tag
\* the reply is the guidance to tag a file.
C12_EditIntentReadsOnly ==
    [][\A c \in DOMAIN conversations_registry :
          (IsTurn(c) /\ HasEditKeyword[response'.request.message]) =>
              /\ fs' = fs
              /\ (/\ response'.request.fault = NoFault
                  /\ ReadingOf(response'.request.message).file_tags = <<>>)
                    => response'.body.response = EditGuidance]_vars

\* 'edit: replace "foo" with "bar" in @app.py' was answered with the content
\* of app.py, which still holds 'foo'
C12_Witness ==
    /\ response.op = "send_message"
    /\ response.status = 200
    /\ response.request.fault = NoFault
    /\ response.request.message = "edit: replace \"foo\" with \"bar\" in @app.py"
    /\ Contains(response.body.response, "(file) **app.py**:\n~~~\nFile: app.py\n")
    /\ Contains(response.body.response, "\nx = foo + foo\n")
    /\ fs[Cwd \o <<"projects", Uuid(1), "app.py">>].content = "x = foo + foo"

\* C13: a call of edit_file or search_and_replace that reports an error leaves
\* every file that was there with the content it had; no file is left cut
\* short or partly written.
C13_AtomicEdit ==
    [][(/\ ncalls' # ncalls
        /\ tool_call'.op \in {"edit_file", "search_and_replace"}
        /\ IsFailure(tool_call'))
          => \A q \in DOMAIN fs :
                IsFile(fs, q) => (Exists(fs', q) /\ fs'[q] = fs[q])]_vars

\* the last request named an agent of the registry and a task whose type that
\* agent does not know
UnknownKindAsked ==
    /\ response.op = "execute_agent_task"
    /\ response.request.agent_name \in DOMAIN agent_registry
    /\ TaskType(response.request.task)
          \notin KnownTasks(agent_registry[response.request.agent_name])

\* C14: a request that names an agent of the registry and a task of a type
\* that agent does not know is answered, not raised, with the unknown task
\* type in the response, and not with the task status 'completed'.
C14_UnknownKindReported ==
    UnknownKindAsked =>
        /\ response.status = 200
        /\ Contains(response.body.response, "Unknown")
        /\ response.body.task_status # "completed"

\* C15: a run whose code ended with a non-zero exit status is reported with
\* status 'error' and what the code wrote to its error stream; a run the
\* runtime rejected before any code ran is reported with status 'failed'; no
\* other run is reported with status 'error'.
C15_ErrorVersusFailed ==
    /\ exec_result.outcome = "nonzero"
          => (exec_result.status = "error" /\ exec_result.error = "stderr")
    /\ exec_result.outcome = "rejected" => exec_result.status = "failed"
    /\ exec_result.status = "error" => exec_result.outcome = "nonzero"

\* 'raise ValueError()' ran in a container and was reported with status
\* 'error' and the error stream
C15_Witness ==
    /\ exec_result.code = "raise ValueError()"
    /\ exec_result.outcome = "nonzero"
    /\ exec_result.status = "error"
    /\ exec_result.error = "stderr"
    /\ run_calls >= 1

\* a run the runtime rejected was reported with status 'failed'
C15_WitnessRejected ==
    /\ exec_result.outcome = "rejected"
    /\ exec_result.status = "failed"
    /\ exec_result.error = "DockerException"

\* C16: with the sandbox enabled, a language that in lower case is none of
\* python, javascript and js is answered with status 'unsupported', and
\* containers.run is not called.
C16_UnsupportedLanguage ==
    [][(/\ nexec' # nexec
        /\ sandbox_enabled
        /\ Lower(exec_result'.language) \notin {"python", "javascript", "js"})
          => /\ exec_result'.status = "unsupported"
             /\ exec_result'.error = "Language " \o exec_result'.language \o " not supported"
             /\ run_calls' = run_calls
             /\ containers' = containers
             /\ temp_files' = temp_files]_vars

\* ruby was asked for with the sandbox enabled and answered 'unsupported'
C16_Witness ==
    /\ sandbox_enabled
    /\ exec_result.language = "ruby"
    /\ exec_result.status = "unsupported"
    /\ run_calls = 0

\* the file a request for file_path in project_id names exists
RequestedExists(project_id, file_path) ==
    LET There(r) == r.err = "" /\ Exists(fs, r.real)
    IN There(Resolve(fs, FullPath(projects_registry[project_id].path, file_path)))

\* C17: POST /files/create for a path that exists answers 409, and POST
\* /files/read for a file or a project that does not exist answers 404.
C17_FileStatusCodes ==
    [][ncalls' # ncalls =>
          LET Codes17(op, r) ==
                  /\ (/\ op = "create_file"
                      /\ r.project_id \in DOMAIN projects_registry
                      /\ RequestedExists(r.project_id, r.file_path))
                        => response'.status = 409
                  /\ (/\ op = "read_file"
                      /\ (\/ r.project_id \notin DOMAIN projects_registry
                          \/ ~RequestedExists(r.project_id, r.file_path)))
                        => response'.status = 404
          IN Codes17(response'.op, response'.request)]_vars

\* C18: after every request each conversation of the registry names a
\* project of the registry, and a create_conversation request that names no
\* project of the registry is answered 404 and changes neither registry.
C18_ConversationHasProject ==
    [][/\ \A c \in DOMAIN conversations_registry' :
             conversations_registry'[c].project_id \in DOMAIN projects_registry'
       /\ (/\ response'.op = "create_conversation"
           /\ response'.request.project_id \notin DOMAIN projects_registry)
             => /\ response'.status = 404
                /\ response'.body = [detail |-> "Project not found"]
                /\ conversations_registry' = conversations_registry
                /\ projects_registry' = projects_registry]_vars

\* a conversation on a project exists, and a request to start one on an
\* unknown project was answered 404
C18_Witness ==
    /\ response.op = "create_conversation"
    /\ response.request.project_id = Unknown
    /\ response.status = 404
    /\ \E c \in DOMAIN conversations_registry :
          conversations_registry[c].project_id \in DOMAIN projects_registry

\* the step is a request for a file of a project whose directory is a link
IsLinkedRequest ==
    /\ ncalls' # ncalls
    /\ response'.op \in {"edit_file", "read_file"}
    /\ response'.request.project_id \in DOMAIN projects_registry
    /\ IsLink(fs, Cwd \o <<"projects", response'.request.project_id>>)

\* C19: a request for a file of a project that was imported as a link
\* changes and creates nothing outside the directory the link names.
C19_LinkedProjectConfined ==
    [][IsLinkedRequest =>
          LET Confined(root) ==
                  \A q \in DOMAIN fs' :
                     (q \notin DOMAIN fs \/ fs'[q] # fs[q]) => IsRelativeTo(q, root)
          IN Confined(fs[Cwd \o <<"projects", response'.request.project_id>>].target)]_vars

\* the step is an import of the directory source that exists
IsImportOf(source) ==
    /\ uuid_count' # uuid_count
    /\ response'.op = "create_project"
    /\ response'.request.local_path # ""
    /\ source.err = ""
    /\ Exists(fs, source.real)

\* what the import of source into project_dir left: a link and no copy when
\* project_dir resolved inside source; otherwise a directory that holds no
\* hidden entry, no __pycache__ and no copy of itself; and nothing of what
\* was at project_dir before
Imported(source, project_dir, dest_path, project_id) ==
    /\ IsRelativeTo(dest_path, source)
          => /\ Exists(fs', project_dir)
             /\ fs'[project_dir] = LinkEntry(source)
             /\ DOMAIN fs' \ DOMAIN fs \subseteq {project_dir}
    /\ ~IsRelativeTo(dest_path, source)
          => /\ IsDir(fs', project_dir)
             /\ \A q \in DOMAIN fs' :
                   (IsRelativeTo(q, project_dir) /\ Len(q) > Len(project_dir))
                      => \A k \in (Len(project_dir) + 1)..Len(q) :
                            ~Ignored(q[k]) /\ q[k] # project_id
    /\ Append(project_dir, "old.txt") \notin DOMAIN fs'

\* C20: an import of an existing directory leaves a link and copies nothing
\* when the destination resolves inside the source, and otherwise leaves a
\* copy without hidden entries and __pycache__ that does not hold the
\* destination itself; what was at the destination before is gone.
C20_ImportStrategy ==
    [][\A local_path \in ImportPaths :
          (/\ response'.op = "create_project"
           /\ response'.request.local_path = local_path
           /\ IsImportOf(Resolve(fs, Absolute(local_path))))
             => Imported(Resolve(fs, Absolute(local_path)).real,
                         Cwd \o <<"projects", Uuid(uuid_count + 1)>>,
                         Resolve(fs, Cwd \o <<"projects", Uuid(uuid_count + 1)>>).real,
                         Uuid(uuid_count + 1))]_vars

\* the step is a call of edit_file in one of its three modes
IsEdit ==
    /\ ncalls' # ncalls
    /\ tool_call'.op = "edit_file"
    /\ tool_call'.operation \in {"replace", "append", "prepend"}

\* what the file at real held before the step, nothing when it was not there
OldContent(real) == IF IsFile(fs, real) THEN fs[real].content ELSE ""

\* the file at real holds what the mode of the call makes of old and new, and
\* the call returned success
EditedAs(real, operation, content) ==
    /\ StartsWith(tool_call'.result, "(ok)")
    /\ IsFile(fs', real)
    /\ fs'[real].content =
          IF operation = "replace" THEN content
          ELSE IF operation = "append" THEN OldContent(real) \o "\n" \o content
          ELSE content \o "\n" \o OldContent(real)

\* C21: edit_file with 'replace' leaves exactly the new content, with 'append'
\* the old content, a line break and the new content, with 'prepend' the new
\* content, a line break and the old content, the old content being empty
\* when there was no file; each returns success.
C21_EditModes ==
    [][IsEdit =>
          EditedAs(Resolve(fs', FullPath(ProjectPath, tool_call'.file_path)).real,
                   tool_call'.operation, tool_call'.content)]_vars

\* the tests a message passes, in the order edit, view, analyze, replace: a
\* keyword of the family for the first three; the word replace and a tag for
\* the fourth
TierTests(message) ==
    <<AnyKeyword(message, EditKeywords), AnyKeyword(message, ViewKeywords),
      AnyKeyword(message, AnalyzeKeywords),
      Contains(Lower(message), "replace") /\ FileTags(message) # <<>>>>

\* the first test each of IntentMessages passes, 5 when it passes none
FirstTier ==
    [message \in IntentMessages |->
        LET First(tests) ==
                IF \E i \in 1..4 : tests[i]
                THEN CHOOSE i \in 1..4 : tests[i] /\ \A j \in 1..(i - 1) : ~tests[j]
                ELSE 5
        IN First(TierTests(message))]

\* how the replies of a tier open, with a tag in the message and without
TierOpeners ==
    <<{"I can help you edit files! Here's what I found:\n\n",
       "I can help you edit files! Please tag a file"},
      {"Here are the files you requested:\n\n", "I can show you files!"},
      {"(chart) **File Analysis**:\n\n", "I can analyze files!"},
      {"(wrench) **File Edit Results**:\n\n", "To replace text, use the format:"},
      {"I'm here to help with your project!"}>>

\* the step is a send_message call on the existing conversation c with one of
\* IntentMessages, and nothing was raised while the message was processed
IsPlainTurn(c) ==
    /\ IsTurn(c)
    /\ response'.request.fault = NoFault
    /\ response'.request.message \in IntentMessages

\* C22: the reply to a message is that of the first tier, in the order edit,
\* view, analyze, replace directive, fallback, whose test the message passes,
\* and only a turn of the replace tier changes a file; a message with an edit
\* keyword and a well-formed replace directive is answered with a preview.
C22_FirstMatchWins ==
    [][\A c \in DOMAIN conversations_registry :
          IsPlainTurn(c) =>
              /\ \E opener \in TierOpeners[FirstTier[response'.request.message]] :
                    StartsWith(response'.body.response, opener)
              /\ FirstTier[response'.request.message] # 4 => fs' = fs]_vars

\* 'examine: replace "foo" with "bar" in @app.py' was answered with an
\* analysis of app.py, which still holds 'foo', after the same directive
\* behind 'edit:' was answered with a preview
C22_Witness ==
    /\ response.op = "send_message"
    /\ response.status = 200
    /\ response.request.fault = NoFault
    /\ response.request.message = "examine: replace \"foo\" with \"bar\" in @app.py"
    /\ StartsWith(response.body.response, "(chart) **File Analysis**:\n\n(file) **app.py**")
    /\ IsFile(fs, Cwd \o <<"projects", Uuid(1), "app.py">>)
    /\ fs[Cwd \o <<"projects", Uuid(1), "app.py">>].content = "x = foo + foo"
    /\ \E c \in DOMAIN conversations_registry :
          /\ Len(conversations_registry[c].messages) = 5
          /\ conversations_registry[c].messages[2].content
                = "edit: replace \"foo\" with \"bar\" in @app.py"
          /\ StartsWith(conversations_registry[c].messages[3].content,
                        "I can help you edit files! Here's what I found:\n\n(file) **app.py**")

\* the step is a turn on conversation c that raised nothing and whose message
\* takes the replace branch with a directive that parsed
IsDirectiveTurn(c) ==
    /\ IsTurn(c)
    /\ response'.request.fault = NoFault
    /\ LET Replaces(r) == r.intent = "replace" /\ r.replace_match.found
       IN Replaces(ReadingOf(response'.request.message))

\* how many outcomes the reply of the step reports for file_tag
OutcomesFor(file_tag) ==
    CountFrom(response'.body.response, "(file) " \o file_tag \o ": ", 1)

\* C23: the files a message references are taken once each, in the order of
\* their first mention: a replace directive that names a file twice applies
\* search_and_replace to it once, and its reply reports one outcome for it.
C23_ReferencesDeduplicated ==
    [][\A c \in DOMAIN conversations_registry :
          IsDirectiveTurn(c) =>
              LET Once(r) ==
                      \A i \in 1..Len(r.file_tags) :
                         /\ OutcomesFor(r.file_tags[i]) = 1
                         /\ HandledAlone(PathOf(c), r.file_tags[i], r.replace_match)
              IN Once(ReadingOf(response'.request.message))]_vars

\* what the replace branch answers to a directive it cannot read
FormatHint ==
    "To replace text, use the format: 'Replace \"old text\" with \"new text\" in @filename.py'"

\* C24: a turn whose message reaches the replace tier, with the word replace
\* and a tag and no keyword of an earlier tier, and whose directive does not
\* parse, is answered with the format to use and changes no file.
C24_UnparsedDirective ==
    [][\A c \in DOMAIN conversations_registry :
          (/\ IsPlainTurn(c)
           /\ FirstTier[response'.request.message] = 4
           /\ ~ReadingOf(response'.request.message).replace_match.found)
             => /\ response'.body.response = FormatHint
                /\ response'.status = 200
                /\ fs' = fs]_vars

\* 'replace "foo" by "bar" in @app.py' was answered with the format to use,
\* and app.py still holds 'foo'
C24_Witness ==
    /\ response.op = "send_message"
    /\ response.status = 200
    /\ response.request.fault = NoFault
    /\ response.request.message = "replace \"foo\" by \"bar\" in @app.py"
    /\ response.body.response = FormatHint
    /\ response.body.file_tags = <<"app.py">>
    /\ IsFile(fs, Cwd \o <<"projects", Uuid(1), "app.py">>)
    /\ fs[Cwd \o <<"projects", Uuid(1), "app.py">>].content = "x = foo + foo"

\* the line counts a file content can be given: its line breaks, or its
\* lines with a last line that no line break ends
LineCounts(content) ==
    LET Counts(breaks) ==
            {breaks, IF content # "" /\ ~PyEndsWith(content, "\n")
                     THEN breaks + 1 ELSE breaks}
    IN Counts(CountFrom(content, "\n", 1))

\* the reply of the step reports, for file_tag, a line count and the size of
\* content
ReportsFigures(file_tag, content) ==
    \E lines \in LineCounts(content) :
       Contains(response'.body.response,
                "(file) **" \o file_tag \o "**:\n"
                \o "* Lines: " \o ToString(lines) \o "\n"
                \o "* Size: " \o ToString(Len(content)) \o " characters\n")

\* C25: the reply to an analysis request reports, for every tagged file that
\* is there, the line count and the size of what the file holds, not of the
\* text read_file wraps around it; the turn completes with a reply also for a
\* file without def or class and for a file that is missing.
C25_AnalysisFigures ==
    [][\A c \in DOMAIN conversations_registry :
          (/\ IsPlainTurn(c)
           /\ FirstTier[response'.request.message] = 3)
             => /\ response'.status = 200
                /\ response'.body.response # FallbackResponse
                /\ LET Each(file_tags) ==
                           \A i \in 1..Len(file_tags) :
                              IsFile(fs, TaggedPath(PathOf(c), file_tags[i]))
                                 => ReportsFigures(file_tags[i],
                                        fs[TaggedPath(PathOf(c), file_tags[i])].content)
                   IN Each(ReadingOf(response'.request.message).file_tags)]_vars

\* C26: the container runtime is looked for once, at construction, and an
\* agent that did not reach it holds no client and has the sandbox flag off,
\* the construction raising nothing; from then on the flag stays off and
\* every execute_code call returns disabled and runs no container.
C26_RuntimeCheckedOnce ==
    /\ [](docker_client = "None" <=> ~sandbox_enabled)
    /\ [][/\ sandbox_enabled' = sandbox_enabled
          /\ docker_client' = docker_client
          /\ (~sandbox_enabled /\ nexec' # nexec)
                => /\ exec_result'.status = "disabled"
                   /\ exec_result'.error = "Code execution sandbox is disabled"
                   /\ run_calls' = run_calls]_vars

\* with SANDBOX_ENABLED on and no runtime reached, two calls were made and the
\* second, javascript that would run, was answered with disabled
C26_Witness ==
    /\ ~sandbox_enabled
    /\ docker_client = "None"
    /\ nexec = 2
    /\ exec_result.code = "print(1)"
    /\ exec_result.language = "js"
    /\ exec_result.status = "disabled"
    /\ run_calls = 0
    /\ temp_files = 0

\* whether one of the keywords of the edit, view and analyze families occurs
\* anywhere in the lowercased text of each of IntentMessages
HoldsKeyword ==
    [message \in IntentMessages |->
        LET In(lower) ==
                \E keyword \in EditKeywords \cup ViewKeywords \cup AnalyzeKeywords :
                   Find(lower, keyword, 1) > 0
        IN In(Lower(message))]

\* C28: the keywords are looked for as substrings of the whole lowercased
\* message, tags and quoted text included; a turn whose message holds one
\* anywhere, as in @fixtures.py or "update_user", does not reach the replace
\* tier and changes no file, and a message with the word replace and a tag
\* reaches the replace tier when it holds none.
C28_KeywordsAnywhere ==
    [][\A c \in DOMAIN conversations_registry :
          IsPlainTurn(c) =>
              LET Tier(message, file_tags, reply) ==
                      /\ HoldsKeyword[message]
                            => /\ fs' = fs
                               /\ \A opener \in TierOpeners[4] \cup TierOpeners[5] :
                                     ~StartsWith(reply, opener)
                      /\ (/\ ~HoldsKeyword[message]
                          /\ Find(Lower(message), "replace", 1) > 0
                          /\ file_tags # <<>>)
                            => \E opener \in TierOpeners[4] : StartsWith(reply, opener)
              IN Tier(response'.request.message, response'.body.file_tags,
                      response'.body.response)]_vars

\* 'replace "foo" with "update_user" in @app.py' was answered with a preview
\* of app.py, as the same directive on @fixtures.py @app.py was before it,
\* and app.py still holds 'foo'
C28_Witness ==
    /\ response.op = "send_message"
    /\ response.status = 200
    /\ response.request.fault = NoFault
    /\ response.request.message = "replace \"foo\" with \"update_user\" in @app.py"
    /\ StartsWith(response.body.response, "I can help you edit files! Here's what I found:")
    /\ IsFile(fs, Cwd \o <<"projects", Uuid(1), "app.py">>)
    /\ fs[Cwd \o <<"projects", Uuid(1), "app.py">>].content = "x = foo + foo"
    /\ \E c \in DOMAIN conversations_registry :
          /\ Len(conversations_registry[c].messages) = 5
          /\ conversations_registry[c].messages[2].content
                = "replace \"foo\" with \"bar\" in @fixtures.py @app.py"
          /\ StartsWith(conversations_registry[c].messages[3].content,
                        "I can help you edit files! Here's what I found:")

\* C30: a call of edit_file with an operation that is none of replace, append
\* and prepend returns the unknown-operation error and leaves the tree of the
\* project as it was: no file made or changed, and no directory made.
C30_UnknownOperation ==
    [][(/\ ncalls' # ncalls
        /\ tool_call'.op = "edit_file"
        /\ tool_call'.operation \notin {"replace", "append", "prepend"})
          => /\ StartsWith(tool_call'.result, "(x) Unknown operation")
             /\ fs' = fs]_vars

\* what the filesystem f holds after the handler of request ran alone, from
\* its first line to its return
RanAlone(f, request) ==
    LET project_path == LoopStart.projects[Uuid(1)].path
    IN IF request.op = "send_message"
       THEN MessageProcessing(f, project_path, request.message, NoFault).fs
       ELSE IF request.op = "search_replace_file"
       THEN FileEditorTool_search_and_replace(f, project_path, request.file_path,
                                              request.search_text, request.replace_text).fs
       ELSE FileEditorTool_edit_file(f, project_path, request.file_path, request.content,
                                     request.operation).fs

RECURSIVE RanInOrder(_, _)
\* what the filesystem f holds after the handlers of requests ran one after
\* the other
RanInOrder(f, requests) ==
    IF requests = <<>> THEN f
    ELSE RanInOrder(RanAlone(f, Head(requests)), Tail(requests))

\* the orders in which the handlers of the set S can be lined up
Orders(S) ==
    {o \in [1..Cardinality(S) -> S] :
        \A a, b \in 1..Cardinality(S) : a # b => o[a] # o[b]}

\* no handler is between the first line of its body and its return
Quiet == \A i \in DOMAIN handlers : handlers[i].pc \in {"idle", "start", "done"}

\* C27: file operations of requests in flight at once, on the same file, leave
\* what running them one after the other in some order leaves: the write of
\* the last one stands, and no operation works on content that another has
\* replaced in between.
C27_LastWriteWins ==
    Quiet =>
        LET Lined(finished) ==
                \E o \in Orders(finished) :
                   fs = RanInOrder(LoopStart.fs,
                                   [k \in 1..Cardinality(finished) |-> handlers[o[k]].request])
        IN Lined({i \in DOMAIN handlers : handlers[i].pc = "done"})

\* a turn of the second conversation that replaces 'foo' by 'bar' in app.py
\* and a search-replace request of 'x' by 'foo' on app.py were in flight
\* together; the request ran first, and the turn edited what it wrote
C27_Witness ==
    /\ \E i, j \in DOMAIN handlers :
          /\ handlers[i].pc = "done"
          /\ handlers[i].op = "send_message"
          /\ handlers[i].request.conversation_id = Uuid(4)
          /\ handlers[i].request.message = "replace \"foo\" with \"bar\" in @app.py"
          /\ handlers[j].pc = "done"
          /\ handlers[j].op = "search_replace_file"
          /\ handlers[j].request.search_text = "x"
    /\ fs[Cwd \o <<"projects", Uuid(1), "app.py">>].content = "bar = bar"

\* C29: however the handlers of turns on one conversation are run, the log
\* of the conversation after its first message is user messages each
\* directly followed by the reply to it; a user message without its reply is
\* the last entry, of the turn whose handler has not returned.
C29_TurnsAdjacent ==
    \A c \in DOMAIN conversations_registry :
       LET Paired(messages) ==
               /\ \A k \in 2..Len(messages) :
                     IF k % 2 = 0
                     THEN messages[k].sender = "user"
                     ELSE /\ messages[k].sender = "assistant"
                          /\ \E opener \in TierOpeners[FirstTier[messages[k - 1].content]] :
                                StartsWith(messages[k].content, opener)
               /\ Quiet => Len(messages) % 2 = 1
       IN Paired(conversations_registry[c].messages)

\* two turns on the first conversation were in flight together; the log holds
\* 'hello' and its reply, then the replace directive and its reply
C29_Witness ==
    /\ \A i \in DOMAIN handlers :
          /\ handlers[i].pc = "done"
          /\ handlers[i].op = "send_message"
          /\ handlers[i].request.conversation_id = Uuid(2)
    /\ Len(conversations_registry[Uuid(2)].messages) = 5
    /\ conversations_registry[Uuid(2)].messages[2].content = "hello"
    /\ conversations_registry[Uuid(2)].messages[3].sender = "assistant"
    /\ conversations_registry[Uuid(2)].messages[4].content
          = "replace \"foo\" with \"bar\" in @app.py"
    /\ StartsWith(conversations_registry[Uuid(2)].messages[5].content,
                  "(wrench) **File Edit Results**:\n\n(file) app.py: (ok) Replaced")

====
